---- MODULE Spec2Model ----
(***************************************************************************)
(* State-machine model of the urban walkthrough: InputManager,             *)
(* InteractionSystem, PlayerController, CameraController and               *)
(* VideoScreenSystem.  Every action is one handler of the JavaScript       *)
(* source, translated statement by statement.                              *)
(*                                                                         *)
(* Numbers.  JavaScript numbers are modelled in fixed point:               *)
(*   - emissive intensities in tenths (0.5 -> 5);                          *)
(*   - media volume in hundredths (0.01 -> 1);                             *)
(*   - angles in 1/10000 rad (pi -> 31416);                                *)
(*   - positions in 1/1000 unit, speeds in 1/1000 unit per second,         *)
(*     dimensionless vector components in 1/1000;                          *)
(*   - deltaTime in frames of 1/60 s.                                      *)
(* Products and quotients round toward zero.                               *)
(***************************************************************************)
EXTENDS Integers, Sequences, FiniteSets, TLC

VARIABLES
    document,           \* the DOM document: pointer-lock properties and requests
    inputManager,       \* InputManager fields
    interactionSystem,  \* InteractionSystem fields
    material,           \* THREE material objects of the interactables
    userData,           \* userData of the interactables' meshes
    playerController,   \* PlayerController fields
    cameraController,   \* CameraController fields (twin: the instance stepped at half rate)
    videoScreenSystem,  \* VideoScreenSystem fields
    frames,             \* animation frames the camera has been updated for
    game,               \* Game fields, its pending callbacks and what the page shows
    observed            \* what the last handler did (operations it performed)

vars == <<document, inputManager, interactionSystem, material, userData,
          playerController, cameraController, videoScreenSystem, frames, game, observed>>

Null == "null"
Undefined == "undefined"

(***************************************************************************)
(* Helpers on sequences                                                    *)
(***************************************************************************)
RECURSIVE Concat(_)
Concat(seqs) ==
    IF seqs = <<>> THEN <<>> ELSE Head(seqs) \o Concat(Tail(seqs))

(***************************************************************************)
(* Config (src/main.js)                                                    *)
(***************************************************************************)
HighlightColor == 65535          \* Config.interaction.highlightColor 0x00ffff
HighlightIntensity == 5          \* Config.interaction.highlightIntensity 0.5
Black == 0                       \* THREE default emissive 0x000000
KioskScreenEmissive == 3447003   \* 0x3498db
KioskScreenIntensity == 2        \* 0.2
DefaultEmissiveIntensity == 10   \* THREE.MeshStandardMaterial default 1.0

InteractKeys == {"KeyE"}                        \* Config.input.interact
ForwardKeys == {"KeyW", "ArrowUp"}
BackwardKeys == {"KeyS", "ArrowDown"}
LeftKeys == {"KeyA", "ArrowLeft"}
RightKeys == {"KeyD", "ArrowRight"}
SprintKeys == {"ShiftLeft", "ShiftRight"}

\* The characters of the configured content strings that formatContent
\* distinguishes: "t" stands for a run of ordinary text, "BULLET" for U+2022.
KioskContent ==
    <<"t", "\n", "\n", "t", "\n", "BULLET", " ", "t", "\n", "BULLET", " ", "t",
      "\n", "\n", "t">>
GatewayContent == <<"t">>

ConfigInteractables ==
    <<[id |-> "info-kiosk-1", type |-> "kiosk",
       title |-> "Welcome to Interface District", content |-> KioskContent],
      [id |-> "info-kiosk-2", type |-> "kiosk",
       title |-> "Residential Tower A", content |-> KioskContent],
      [id |-> "gateway-1", type |-> "gateway",
       title |-> "Plaza Gateway", content |-> GatewayContent]>>

(***************************************************************************)
(* The scene objects createInteractable builds.  A kiosk is a Mesh with a  *)
(* child screen Mesh, each with its own material; the gateway is a Group   *)
(* of three Meshes that share one pillarMaterial.                          *)
(***************************************************************************)
Interactables == {ConfigInteractables[i].id : i \in DOMAIN ConfigInteractables}

\* object.userData.interactionData, as registerInteractable stores it
InteractionDataOf ==
    [obj \in Interactables |->
        LET i == CHOOSE j \in DOMAIN ConfigInteractables : ConfigInteractables[j].id = obj
        IN  ConfigInteractables[i]]

InteractionData(obj) == InteractionDataOf[obj]

\* mesh.add(...) in createInteractable: the children of each root, in order
ChildrenOfRoot ==
    [obj \in Interactables |->
        IF InteractionDataOf[obj].type = "kiosk"
        THEN <<obj \o "/screen">>
        ELSE <<obj \o "/leftPillar", obj \o "/rightPillar", obj \o "/arch">>]

Nodes ==
    Interactables \cup
    UNION {{ChildrenOfRoot[o][i] : i \in DOMAIN ChildrenOfRoot[o]} : o \in Interactables}

ChildrenOf == [n \in Nodes |-> IF n \in Interactables THEN ChildrenOfRoot[n] ELSE <<>>]

\* object.parent; the interactable roots hang under the scene, which is not
\* flagged interactable and ends the walk of findInteractableParent
ParentOf ==
    [n \in Nodes |->
        IF n \in Interactables THEN Null
        ELSE CHOOSE o \in Interactables :
                \E i \in DOMAIN ChildrenOfRoot[o] : ChildrenOfRoot[o][i] = n]

Parent(node) == ParentOf[node]

\* the kiosk roots and every child are THREE.Mesh; the gateway root is a THREE.Group
IsMeshOf ==
    [n \in Nodes |-> ~(n \in Interactables /\ InteractionDataOf[n].type = "gateway")]

IsMesh(node) == IsMeshOf[node]

Meshes == {n \in Nodes : IsMeshOf[n]}

\* child.material: the gateway's three meshes share pillarMaterial
MaterialOfMesh ==
    [n \in Nodes |->
        IF n \in Interactables THEN n \o "/material"
        ELSE IF InteractionDataOf[ParentOf[n]].type = "gateway"
             THEN ParentOf[n] \o "/pillarMaterial"
             ELSE n \o "/material"]

MaterialOf(mesh) == MaterialOfMesh[mesh]

Materials == {MaterialOfMesh[m] : m \in Meshes}

InitialMaterial(mat) ==
    IF \E o \in Interactables :
          InteractionDataOf[o].type = "kiosk" /\ mat = MaterialOfMesh[ChildrenOfRoot[o][1]]
    THEN [emissive |-> KioskScreenEmissive, emissiveIntensity |-> KioskScreenIntensity]
    ELSE [emissive |-> Black, emissiveIntensity |-> DefaultEmissiveIntensity]

\* registerInteractable sets userData.interactable on the root only
IsInteractable(node) == node \in Interactables

\* Object3D.traverse: the object itself, then its children in order
RECURSIVE TraverseFrom(_)
TraverseFrom(node) ==
    <<node>> \o Concat([i \in DOMAIN ChildrenOf[node] |-> TraverseFrom(ChildrenOf[node][i])])

TraverseOf == [n \in Nodes |-> TraverseFrom(n)]

Traverse(node) == TraverseOf[node]

(***************************************************************************)
(* Utils (src/utils.js)                                                    *)
(***************************************************************************)
Max(a, b) == IF a >= b THEN a ELSE b
Min(a, b) == IF a <= b THEN a ELSE b

\* Math.max(min, Math.min(max, value))
Clamp(value, min, max) == Max(min, Min(max, value))

\* 'pointerLockElement' in document || ... : a property the browser does not
\* implement is absent (reads as undefined)
IsPointerLockSupported(doc) ==
    \/ doc.pointerLockElement # Undefined
    \/ doc.mozPointerLockElement # Undefined
    \/ doc.webkitPointerLockElement # Undefined

\* document.pointerLockElement !== null || document.mozPointerLockElement !== null || ...
UtilsIsPointerLocked(doc) ==
    \/ doc.pointerLockElement # Null
    \/ doc.mozPointerLockElement # Null
    \/ doc.webkitPointerLockElement # Null

RequestPointerLock(doc) == [doc EXCEPT !.lockRequest = "lock"]

ExitPointerLock(doc) == [doc EXCEPT !.lockRequest = "exit"]

\* The browser's side of the Pointer Lock API: every property the browser
\* implements holds the lock element while the pointer is locked, else null.
HoldsLock(doc) ==
    \/ doc.pointerLockElement = "canvas"
    \/ doc.mozPointerLockElement = "canvas"
    \/ doc.webkitPointerLockElement = "canvas"

SetLock(doc, elem) ==
    [doc EXCEPT
        !.pointerLockElement = IF @ = Undefined THEN @ ELSE elem,
        !.mozPointerLockElement = IF @ = Undefined THEN @ ELSE elem,
        !.webkitPointerLockElement = IF @ = Undefined THEN @ ELSE elem]

\* the elements of the page the program looks up with getElementById
UIElements ==
    {"interaction-prompt", "info-panel", "panel-title", "panel-content",
     "close-panel", "loading-screen"}

\* document.getElementById(id) !== null
HasElement(doc, id) == id \in doc.elements

\* The browsers the page can run in: each of the three properties is either
\* implemented or absent, and at least one is implemented; the page holds
\* every element.
Browsers ==
    {d \in [pointerLockElement : {Null, Undefined},
            mozPointerLockElement : {Null, Undefined},
            webkitPointerLockElement : {Null, Undefined},
            lockRequest : {"none"},
            elements : {UIElements}] : IsPointerLockSupported(d)}

(***************************************************************************)
(* The world the handlers act on: one record of all the objects a handler  *)
(* can reach, threaded through the statements in program order.            *)
(***************************************************************************)
World ==
    [document |-> document, inputManager |-> inputManager,
     interactionSystem |-> interactionSystem, material |-> material,
     userData |-> userData, videoScreenSystem |-> videoScreenSystem, ops |-> <<>>,
     thrown |-> FALSE]

\* a TypeError (a property of null is read): the statements that follow in
\* the handler do not run
Throw(w) == [w EXCEPT !.thrown = TRUE]

(***************************************************************************)
(* InputManager (src/cameraController.js)                                  *)
(***************************************************************************)
IsKeyPressed(im, keyCodes) == im.keys \cap keyCodes # {}

\* isInteractPressed: reads the key and consumes it
IsInteractPressed(im) == IsKeyPressed(im, InteractKeys)

ConsumeInteract(im) ==
    IF IsKeyPressed(im, InteractKeys)
    THEN [im EXCEPT !.keys = @ \ InteractKeys]
    ELSE im

OnKeyDown(w, code) ==
    IF code = "Escape" /\ w.inputManager.isPointerLocked
    THEN [w EXCEPT !.document = ExitPointerLock(@)]
    ELSE [w EXCEPT !.inputManager.keys = @ \cup {code}]

OnKeyUp(w, code) == [w EXCEPT !.inputManager.keys = @ \ {code}]

\* movementX || 0
OnMouseMove(w, movementX, movementY) ==
    IF w.inputManager.isPointerLocked
    THEN [w EXCEPT !.inputManager.mouseMovement = [x |-> movementX, y |-> movementY]]
    ELSE w

OnClick(w) ==
    IF ~w.inputManager.isPointerLocked /\ IsPointerLockSupported(w.document)
    THEN [w EXCEPT !.document = RequestPointerLock(@)]
    ELSE w

OnPointerLockChange(w) ==
    LET locked == UtilsIsPointerLocked(w.document)
    IN  IF locked
        THEN [w EXCEPT !.inputManager.isPointerLocked = TRUE]
        ELSE [w EXCEPT !.inputManager.isPointerLocked = FALSE,
                       !.inputManager.mouseMovement = [x |-> 0, y |-> 0]]

(***************************************************************************)
(* InteractionSystem (src/interactionSystem.js)                            *)
(***************************************************************************)
\* a walk that starts at the parent of the object
RECURSIVE FindInteractableAbove(_, _, _)
FindInteractableAbove(parentOf, interactables, object) ==
    IF object = Null \/ parentOf[object] = Null THEN Null
    ELSE IF parentOf[object] \in interactables THEN parentOf[object]
    ELSE FindInteractableAbove(parentOf, interactables, parentOf[object])

\* findInteractableParent in a scene tree given by the parent of each object
\* and the objects whose userData.interactable is set
RECURSIVE FindInteractableParentIn(_, _, _)
FindInteractableParentIn(parentOf, interactables, object) ==
    IF object = Null THEN Null
    ELSE IF object \in interactables THEN object
    ELSE FindInteractableParentIn(parentOf, interactables, parentOf[object])

\* findInteractableParent in the scene createInteractable builds
FindInteractableParent(object) ==
    FindInteractableParentIn(ParentOf, Interactables, object)

\* a mesh's userData before highlightObject stores anything in it, and the
\* test child.userData.originalEmissive (a THREE.Color, truthy once stored)
NoUserData == <<>>

HasOriginalEmissive(ud) == "originalEmissive" \in DOMAIN ud

Log(w, entry) == [w EXCEPT !.ops = Append(@, entry)]

\* the body of highlightObject's traverse callback, over the visited nodes
RECURSIVE HighlightNodes(_, _)
HighlightNodes(w, nodes) ==
    IF nodes = <<>> THEN w
    ELSE LET child == Head(nodes)
             m == MaterialOf(child)
             w1 == IF IsMesh(child) /\ ~HasOriginalEmissive(w.userData[child])
                   THEN [w EXCEPT !.userData[child] =
                            [originalEmissive |-> w.material[m].emissive,
                             originalEmissiveIntensity |-> w.material[m].emissiveIntensity]]
                   ELSE w
             w2 == IF IsMesh(child)
                   THEN [w1 EXCEPT !.material[m] =
                            [emissive |-> HighlightColor,
                             emissiveIntensity |-> HighlightIntensity]]
                   ELSE w1
         IN  HighlightNodes(w2, Tail(nodes))

HighlightObject(w, object) ==
    HighlightNodes(Log(w, [op |-> "apply", object |-> object]), Traverse(object))

\* the body of clearHighlight's traverse callback, over the visited nodes
RECURSIVE RestoreNodes(_, _)
RestoreNodes(w, nodes) ==
    IF nodes = <<>> THEN w
    ELSE LET child == Head(nodes)
             m == MaterialOf(child)
             w1 == IF IsMesh(child) /\ HasOriginalEmissive(w.userData[child])
                   THEN [w EXCEPT !.material[m] =
                            [emissive |-> w.userData[child].originalEmissive,
                             emissiveIntensity |-> w.userData[child].originalEmissiveIntensity]]
                   ELSE w
         IN  RestoreNodes(w1, Tail(nodes))

ClearHighlight(w) ==
    IF w.interactionSystem.currentInteractable = Null THEN w
    ELSE RestoreNodes(
            Log(w, [op |-> "clear", object |-> w.interactionSystem.currentInteractable]),
            Traverse(w.interactionSystem.currentInteractable))

\* this.promptElement.classList.add('visible')
ShowPrompt(w) ==
    IF ~HasElement(w.document, "interaction-prompt") THEN Throw(w)
    ELSE [w EXCEPT !.interactionSystem.promptVisible = TRUE]

HidePrompt(w) ==
    IF ~HasElement(w.document, "interaction-prompt") THEN Throw(w)
    ELSE [w EXCEPT !.interactionSystem.promptVisible = FALSE]

\* setCurrentInteractable without its "already set" return
SetCurrentInteractableAgain(w, object) ==
    ShowPrompt(HighlightObject(
        [ClearHighlight(w) EXCEPT !.interactionSystem.currentInteractable = object],
        object))

SetCurrentInteractable(w, object) ==
    IF w.interactionSystem.currentInteractable = object THEN w
    ELSE ShowPrompt(HighlightObject(
            [ClearHighlight(w) EXCEPT !.interactionSystem.currentInteractable = object],
            object))

ClearCurrentInteractable(w) ==
    IF w.interactionSystem.currentInteractable = Null THEN w
    ELSE HidePrompt([ClearHighlight(w) EXCEPT
                        !.interactionSystem.currentInteractable = Null])

\* String.prototype.split('\n') on a sequence of characters
RECURSIVE SplitLines(_, _)
SplitLines(text, line) ==
    IF text = <<>> THEN <<line>>
    ELSE IF Head(text) = "\n" THEN <<line>> \o SplitLines(Tail(text), <<>>)
    ELSE SplitLines(Tail(text), Append(line, Head(text)))

\* String.prototype.trim
RECURSIVE TrimStart(_)
TrimStart(line) ==
    IF line # <<>> /\ Head(line) = " " THEN TrimStart(Tail(line)) ELSE line

RECURSIVE TrimEnd(_)
TrimEnd(line) ==
    IF line # <<>> /\ line[Len(line)] = " "
    THEN TrimEnd(SubSeq(line, 1, Len(line) - 1))
    ELSE line

Trim(line) == TrimEnd(TrimStart(line))

StartsWith(line, prefix) ==
    Len(line) >= Len(prefix) /\ SubSeq(line, 1, Len(prefix)) = prefix

\* the three characters of the marker literal in formatContent (U+00E2,
\* U+20AC, U+00A2), which is not the single character U+2022
BulletMarker == <<"a-circumflex", "euro", "cent">>

FormatLine(rawLine) ==
    LET line == Trim(rawLine)
    IN  IF StartsWith(line, BulletMarker)
        THEN <<[tag |-> "li", text |-> Trim(SubSeq(line, 2, Len(line)))]>>
        ELSE IF Len(line) > 0 THEN <<[tag |-> "p", text |-> line]>>
        ELSE <<>>

FormatContent(text) ==
    LET lines == SplitLines(text, <<>>)
    IN  Concat([i \in DOMAIN lines |-> FormatLine(lines[i])])

ShowInfoPanel(w, data) ==
    IF ~HasElement(w.document, "panel-title") THEN Throw(w)
    ELSE IF ~HasElement(w.document, "panel-content")
    THEN Throw([w EXCEPT !.interactionSystem.panelTitle = data.title])
    ELSE IF ~HasElement(w.document, "info-panel")
    THEN Throw([w EXCEPT !.interactionSystem.panelTitle = data.title,
                         !.interactionSystem.panelContent = FormatContent(data.content)])
    ELSE [w EXCEPT !.interactionSystem.panelTitle = data.title,
                   !.interactionSystem.panelContent = FormatContent(data.content),
                   !.interactionSystem.panelVisible = TRUE,
                   !.interactionSystem.isPanelOpen = TRUE,
                   !.document = IF UtilsIsPointerLocked(@) THEN ExitPointerLock(@) ELSE @]

\* interact, the statements that follow showInfoPanel
AfterShowInfoPanel(shown) ==
    IF shown.thrown THEN shown ELSE ClearCurrentInteractable(shown)

Interact(w) ==
    IF w.interactionSystem.currentInteractable = Null THEN w
    ELSE AfterShowInfoPanel(
            ShowInfoPanel(w, InteractionData(w.interactionSystem.currentInteractable)))

ClosePanel(w) ==
    IF ~HasElement(w.document, "info-panel") THEN Throw(w)
    ELSE [w EXCEPT !.interactionSystem.panelVisible = FALSE,
                   !.interactionSystem.isPanelOpen = FALSE]

\* update, its check for interact input, on the world the raycast left
CheckInteractInput(w) ==
    IF w.thrown THEN w
    ELSE IF /\ w.interactionSystem.currentInteractable # Null
            /\ IsInteractPressed(w.inputManager)
         THEN Interact([w EXCEPT !.inputManager = ConsumeInteract(@)])
         ELSE w

\* update, the choice of the current interactable from the raycast
CheckInteractables(w, hit, object) ==
    IF hit # Null
    THEN IF object # Null /\ IsInteractable(object)
         THEN SetCurrentInteractable(w, object)
         ELSE ClearCurrentInteractable(w)
    ELSE ClearCurrentInteractable(w)

\* InteractionSystem.update; hit is intersects[0].object, or Null when the
\* ray meets no interactable
InteractionSystemUpdate(w, hit) ==
    IF w.interactionSystem.isPanelOpen THEN w
    ELSE IF ~w.inputManager.isPointerLocked THEN HidePrompt(ClearHighlight(w))
    ELSE CheckInteractInput(CheckInteractables(Log(w, [op |-> "raycast"]), hit,
                                               FindInteractableParent(hit)))

\* the keydown listener setupUIHandlers registers on the document
OnPanelKeyDown(w, code) ==
    IF code = "Escape" /\ w.interactionSystem.isPanelOpen THEN ClosePanel(w) ELSE w

(***************************************************************************)
(* Fixed-point vector arithmetic (THREE.Vector2 / THREE.Vector3)           *)
(***************************************************************************)
Abs(a) == IF a < 0 THEN -a ELSE a

Sign(a) == IF a < 0 THEN -1 ELSE IF a > 0 THEN 1 ELSE 0

\* division rounding toward zero
Quot(a, b) == Sign(a) * Sign(b) * (Abs(a) \div Abs(b))

\* floor of the square root, by bisection on [lo, hi]
RECURSIVE SqrtBetween(_, _, _)
SqrtBetween(n, lo, hi) ==
    IF lo >= hi THEN lo
    ELSE LET mid == (lo + hi + 1) \div 2
         IN  IF mid * mid <= n THEN SqrtBetween(n, mid, hi) ELSE SqrtBetween(n, lo, mid - 1)

Sqrt(n) == SqrtBetween(n, 0, 46340)

\* dimensionless vectors are in 1/1000
Unit == 1000

Vec3(x, y, z) == [x |-> x, y |-> y, z |-> z]

Length3(v) == Sqrt(v.x * v.x + v.y * v.y + v.z * v.z)

\* Utils.distanceXZ
DistanceXZ(pos1, pos2) ==
    LET dx == pos1.x - pos2.x
        dz == pos1.z - pos2.z
    IN  Sqrt(dx * dx + dz * dz)

\* Vector3.normalize: divideScalar(length() || 1)
Normalize3(v) ==
    LET len == Length3(v)
    IN  IF len = 0 THEN v
        ELSE Vec3(Quot(v.x * Unit, len), Quot(v.y * Unit, len), Quot(v.z * Unit, len))

\* Vector3.addScaledVector(v, s), s in 1/1000
AddScaled3(a, v, s) ==
    Vec3(a.x + Quot(v.x * s, Unit), a.y + Quot(v.y * s, Unit), a.z + Quot(v.z * s, Unit))

Add3(a, b) == Vec3(a.x + b.x, a.y + b.y, a.z + b.z)

\* angles are in 1/10000 rad
Pi == 31416

\* atan(num / den) for 0 <= num <= den, den > 0 (quadratic approximation)
AtanOctant(num, den) ==
    LET z == (num * Unit) \div den
    IN  (7854 * z) \div Unit + (2730 * ((z * (Unit - z)) \div Unit)) \div Unit

\* Math.atan2(y, x), in [-Pi, Pi]
Atan2(y, x) ==
    IF x = 0 /\ y = 0 THEN 0
    ELSE LET a == Abs(y)
             b == Abs(x)
             first == IF a <= b THEN AtanOctant(a, b) ELSE Pi \div 2 - AtanOctant(b, a)
             half == IF x < 0 THEN Pi - first ELSE first
         IN  IF y < 0 THEN -half ELSE half

(***************************************************************************)
(* InputManager polling (src/cameraController.js)                          *)
(***************************************************************************)
\* getMovementInput: a Vector2 in 1/1000, normalised when non-zero
GetMovementInput(im) ==
    LET y == (IF IsKeyPressed(im, ForwardKeys) THEN 1 ELSE 0)
               - (IF IsKeyPressed(im, BackwardKeys) THEN 1 ELSE 0)
        x == (IF IsKeyPressed(im, RightKeys) THEN 1 ELSE 0)
               - (IF IsKeyPressed(im, LeftKeys) THEN 1 ELSE 0)
        len == Sqrt((x * x + y * y) * Unit * Unit)
    IN  IF len > 0
        THEN [x |-> Quot(x * Unit * Unit, len), y |-> Quot(y * Unit * Unit, len)]
        ELSE [x |-> 0, y |-> 0]

IsSprinting(im) == IsKeyPressed(im, SprintKeys)

(***************************************************************************)
(* PlayerController (src/unnamed/part_000)                                 *)
(* positions in 1/1000 unit, speeds in 1/1000 unit per second, deltaTime   *)
(* in frames of 1/60 s                                                     *)
(***************************************************************************)
PlayerHeight == 1800         \* Config.player.height 1.8
PlayerRadius == 400          \* Config.player.radius 0.4
Gravity == -20000            \* Config.player.gravity -20.0
MoveSpeed == 5               \* Config.player.moveSpeed 5.0
SprintMultiplierTenths == 18 \* Config.player.sprintMultiplier 1.8
TurnSpeedInverse == 10       \* Config.player.turnSpeed 0.1 = 1/10
GroundRayOffset == 100       \* origin.y += 0.1
GroundEpsilon == 200         \* Config.player.height / 2 + 0.2
TicksPerSecond == 60         \* deltaTime unit: 1/60 s (Config.performance.targetFPS)
WindowDepth == 50            \* windowDepth 0.05
RayFarMargin == 500          \* groundRaycaster.far = Config.player.height + 0.5
GroundSize == 200000         \* Config.environment.groundSize 200
GridDivisions == 50          \* new THREE.GridHelper(groundSize, 50, ...)
GridHeight == 10             \* gridHelper.position.y = 0.01
LineThreshold == 1000        \* Raycaster.params.Line.threshold, 1 by default
PlazaSize == 30000           \* new THREE.PlaneGeometry(30, 30)

HalfHeight == PlayerHeight \div 2

\* Config.environment.buildings, in units: centre position and size
ConfigBuildings ==
    <<[position |-> Vec3(-25000, 7500, -10000), size |-> Vec3(10000, 15000, 20000)],
      [position |-> Vec3(-25000, 10000, 10000), size |-> Vec3(10000, 20000, 15000)],
      [position |-> Vec3(25000, 6000, -10000), size |-> Vec3(10000, 12000, 18000)],
      [position |-> Vec3(25000, 9000, 10000), size |-> Vec3(10000, 18000, 16000)],
      [position |-> Vec3(-10000, 12000, -35000), size |-> Vec3(15000, 24000, 12000)],
      [position |-> Vec3(10000, 10000, -35000), size |-> Vec3(15000, 20000, 12000)],
      [position |-> Vec3(-15000, 3000, -15000), size |-> Vec3(8000, 6000, 8000)],
      [position |-> Vec3(15000, 3000, -15000), size |-> Vec3(8000, 6000, 8000)]>>

\* new THREE.Box3().setFromObject(building): the box of the building mesh
\* and of its window planes, which stand windowDepth off each face
BuildingBox(b) ==
    [min |-> Vec3(b.position.x - b.size.x \div 2 - WindowDepth,
                  b.position.y - b.size.y \div 2,
                  b.position.z - b.size.z \div 2 - WindowDepth),
     max |-> Vec3(b.position.x + b.size.x \div 2 + WindowDepth,
                  b.position.y + b.size.y \div 2,
                  b.position.z + b.size.z \div 2 + WindowDepth)]

\* the boxes of the scene children createBuilding flags userData.collidable
ConfigCollidables == {BuildingBox(ConfigBuildings[i]) : i \in DOMAIN ConfigBuildings}

\* the boxes of the children of this.scene that canMoveTo does not skip
Collidables == playerController.scene

\* Box3.intersectsBox
IntersectsBox(a, b) ==
    ~(\/ b.max.x < a.min.x \/ b.min.x > a.max.x
      \/ b.max.y < a.min.y \/ b.min.y > a.max.y
      \/ b.max.z < a.min.z \/ b.min.z > a.max.z)

PlayerBox(position) ==
    [min |-> Vec3(position.x - PlayerRadius, position.y - HalfHeight, position.z - PlayerRadius),
     max |-> Vec3(position.x + PlayerRadius, position.y + HalfHeight, position.z + PlayerRadius)]

CanMoveTo(position) ==
    \A box \in Collidables : ~IntersectsBox(PlayerBox(position), box)

\* calculateMovement taking the target rotation from a zero moveDirection too
CalculateMovementAlwaysTurns(pc, input, cameraForward, isSprinting) ==
    IF input.x = 0 /\ input.y = 0
    THEN [pc EXCEPT !.moveDirection = Vec3(0, 0, 0)]
    ELSE LET forward == Normalize3(Vec3(cameraForward.x, 0, cameraForward.z))
             right == Normalize3(Vec3(-forward.z, 0, forward.x))
             dir == Normalize3(AddScaled3(AddScaled3(Vec3(0, 0, 0), forward, input.y),
                                          right, input.x))
             speedTenths == MoveSpeed * (IF isSprinting THEN SprintMultiplierTenths ELSE 10)
         IN  [pc EXCEPT
                !.targetRotation = Atan2(dir.x, dir.z),
                !.moveDirection = Vec3(Quot(dir.x * speedTenths, 10), 0,
                                       Quot(dir.z * speedTenths, 10))]

\* calculateMovement; input and cameraForward in 1/1000
CalculateMovement(pc, input, cameraForward, isSprinting) ==
    IF input.x = 0 /\ input.y = 0
    THEN [pc EXCEPT !.moveDirection = Vec3(0, 0, 0)]
    ELSE LET forward == Normalize3(Vec3(cameraForward.x, 0, cameraForward.z))
             right == Normalize3(Vec3(-forward.z, 0, forward.x))
             dir == Normalize3(AddScaled3(AddScaled3(Vec3(0, 0, 0), forward, input.y),
                                          right, input.x))
             speedTenths == MoveSpeed * (IF isSprinting THEN SprintMultiplierTenths ELSE 10)
         IN  [pc EXCEPT
                !.targetRotation = IF Length3(dir) > 0 THEN Atan2(dir.x, dir.z) ELSE @,
                !.moveDirection = Vec3(Quot(dir.x * speedTenths, 10), 0,
                                       Quot(dir.z * speedTenths, 10))]

\* applyGravity integrating gravity whether grounded or not
ApplyGravityAlways(pc, deltaTime) ==
    [pc EXCEPT !.velocity.y = @ + Quot(Gravity * deltaTime, TicksPerSecond)]

ApplyGravity(pc, deltaTime) ==
    IF ~pc.isGrounded
    THEN [pc EXCEPT !.velocity.y = @ + Quot(Gravity * deltaTime, TicksPerSecond)]
    ELSE IF pc.velocity.y < 0 THEN [pc EXCEPT !.velocity.y = 0] ELSE pc

\* The surfaces createGround lays out below the player, as the downward ray
\* from origin meets them: the ground plane at y = 0, the lines of the grid
\* helper at y = 0.01 (a line is hit when the ray passes within the line
\* threshold of it) and the plaza plane at y = 0.02.
PlazaPosition == Vec3(0, 20, -10000)

OverGround(origin) ==
    Abs(origin.x) * 2 <= GroundSize /\ Abs(origin.z) * 2 <= GroundSize

NearGridLine(coordinate) ==
    LET cell == GroundSize \div GridDivisions
        r == coordinate % cell
    IN  r <= LineThreshold \/ cell - r <= LineThreshold

\* how far a coordinate lies beyond the end of the grid lines
BeyondGrid(coordinate) == Max(0, Abs(coordinate) - GroundSize \div 2)

OverGrid(origin) ==
    LET dx == BeyondGrid(origin.x)
        dz == BeyondGrid(origin.z)
    IN  \/ dx = 0 /\ dz <= LineThreshold /\ NearGridLine(origin.z)
        \/ dz = 0 /\ dx <= LineThreshold /\ NearGridLine(origin.x)
        \/ dx > 0 /\ dz > 0 /\ dx * dx + dz * dz <= LineThreshold * LineThreshold

OverPlaza(origin) ==
    /\ Abs(origin.x - PlazaPosition.x) * 2 <= PlazaSize
    /\ Abs(origin.z - PlazaPosition.z) * 2 <= PlazaSize

GroundHit(distance) == [isPlayer |-> FALSE, distance |-> distance]

PlayerHit(distance) == [isPlayer |-> TRUE, distance |-> distance]

\* the hit of a horizontal surface at height y: none when the surface is not
\* below the origin or lies beyond raycaster.far
SurfaceHits(origin, over, y) ==
    IF over /\ y <= origin.y /\ origin.y - y <= PlayerHeight + RayFarMargin
    THEN <<GroundHit(origin.y - y)>> ELSE <<>>

\* the top face of a building mesh below the origin (the buildings stand
\* apart, so at most one is; its side faces and window planes are vertical
\* and the downward ray does not meet them)
OverBuilding(origin, b) ==
    /\ Abs(origin.x - b.position.x) * 2 <= b.size.x
    /\ Abs(origin.z - b.position.z) * 2 <= b.size.z

RoofHits(origin) ==
    LET below == {i \in DOMAIN ConfigBuildings : OverBuilding(origin, ConfigBuildings[i])}
    IN  IF below = {} THEN <<>>
        ELSE LET b == ConfigBuildings[CHOOSE i \in below : TRUE]
             IN  SurfaceHits(origin, TRUE, b.position.y + b.size.y \div 2)

\* intersects.sort(ascSort): insertion of a hit by distance
RECURSIVE InsertHit(_, _)
InsertHit(hit, hits) ==
    IF hits = <<>> THEN <<hit>>
    ELSE IF hit.distance < Head(hits).distance THEN <<hit>> \o hits
    ELSE <<Head(hits)>> \o InsertHit(hit, Tail(hits))

\* groundRaycaster.intersectObjects(scene.children, true): the hits sorted by
\* distance; selfHit tells whether the ray also meets the player's own
\* capsule, whose lower end is half a height below the position
IntersectObjects(origin, selfHit) ==
    LET surfaces == RoofHits(origin)
                    \o SurfaceHits(origin, OverPlaza(origin), PlazaPosition.y)
                    \o SurfaceHits(origin, OverGrid(origin), GridHeight)
                    \o SurfaceHits(origin, OverGround(origin), 0)
    IN  IF selfHit THEN InsertHit(PlayerHit(HalfHeight + GroundRayOffset), surfaces)
        ELSE surfaces

\* checkGround taking the nearest hit without filtering out the player
CheckGroundUnfiltered(pc, selfHit) ==
    LET origin == [pc.position EXCEPT !.y = @ + GroundRayOffset]
        intersects == IntersectObjects(origin, selfHit)
    IN  [pc EXCEPT !.isGrounded =
            Len(intersects) > 0 /\ intersects[1].distance < HalfHeight + GroundEpsilon]

\* checkGround
CheckGround(pc, selfHit) ==
    LET origin == [pc.position EXCEPT !.y = @ + GroundRayOffset]
        intersects == IntersectObjects(origin, selfHit)
        groundHits == SelectSeq(intersects, LAMBDA hit : ~hit.isPlayer)
    IN  [pc EXCEPT !.isGrounded =
            Len(groundHits) > 0 /\ groundHits[1].distance < HalfHeight + GroundEpsilon]

\* move: moveDirection.clone().multiplyScalar(deltaTime)
HorizontalMovement(pc, deltaTime) ==
    Vec3(Quot(pc.moveDirection.x * deltaTime, TicksPerSecond),
         Quot(pc.moveDirection.y * deltaTime, TicksPerSecond),
         Quot(pc.moveDirection.z * deltaTime, TicksPerSecond))

\* move: new THREE.Vector3(0, velocity.y * deltaTime, 0)
VerticalMovement(pc, deltaTime) ==
    Vec3(0, Quot(pc.velocity.y * deltaTime, TicksPerSecond), 0)

\* move, up to the collision tests: the position the player is moved to.
\* Vector3.add works in place and returns its receiver: after
\* totalMovement = horizontalMovement.add(verticalMovement) both names denote
\* the one vector that holds the sum, and horizontalOnly is computed from it.
MovedPosition(pc, deltaTime) ==
    LET verticalMovement == VerticalMovement(pc, deltaTime)
        totalMovement == Add3(HorizontalMovement(pc, deltaTime), verticalMovement)
        horizontalMovement == totalMovement
        newPosition == Add3(pc.position, totalMovement)
        horizontalOnly == Add3(pc.position, horizontalMovement)
        afterHorizontal == IF CanMoveTo(horizontalOnly) THEN horizontalOnly ELSE pc.position
        verticalOnly == Add3(afterHorizontal, verticalMovement)
    IN  IF CanMoveTo(newPosition) THEN newPosition
        ELSE IF CanMoveTo(verticalOnly) THEN verticalOnly
        ELSE afterHorizontal

\* move without the clamp
NoClampToGround(pc) == pc

\* move, the clamp to ground level that ends it
ClampToGround(pc) ==
    IF pc.position.y < HalfHeight
    THEN [pc EXCEPT !.position.y = HalfHeight,
                    !.velocity.y = 0,
                    !.isGrounded = TRUE]
    ELSE pc

Move(pc, deltaTime) ==
    ClampToGround([pc EXCEPT !.position = MovedPosition(pc, deltaTime)])

\* the wrapping loops of updateRotation
RECURSIVE WrapDown(_)
WrapDown(rotationDiff) ==
    IF rotationDiff > Pi THEN WrapDown(rotationDiff - Pi * 2) ELSE rotationDiff

RECURSIVE WrapUp(_)
WrapUp(rotationDiff) ==
    IF rotationDiff < -Pi THEN WrapUp(rotationDiff + Pi * 2) ELSE rotationDiff

\* the rotation difference without the wrapping loops
RawRotationDiff(pc) == pc.targetRotation - pc.currentRotation

RotationDiff(pc) == WrapUp(WrapDown(pc.targetRotation - pc.currentRotation))

UpdateRotation(pc, deltaTime) ==
    [pc EXCEPT !.currentRotation = @ + Quot(RotationDiff(pc), TurnSpeedInverse)]

UpdateMesh(pc) ==
    [pc EXCEPT !.mesh = [position |-> pc.position, rotationY |-> pc.currentRotation]]

\* update checking the ground before it applies gravity
BeforeMoveGroundFirst(pc, im, deltaTime, cameraForward, selfHit) ==
    LET p1 == CalculateMovement(pc, GetMovementInput(im), cameraForward, IsSprinting(im))
        p2 == CheckGround(p1, selfHit)
    IN  ApplyGravity(p2, deltaTime)

\* PlayerController.update
\* update, the statements that precede move
BeforeMove(pc, im, deltaTime, cameraForward, selfHit) ==
    LET p1 == CalculateMovement(pc, GetMovementInput(im), cameraForward, IsSprinting(im))
        p2 == ApplyGravity(p1, deltaTime)
    IN  CheckGround(p2, selfHit)

PlayerControllerUpdate(pc, im, deltaTime, cameraForward, selfHit) ==
    IF ~im.isPointerLocked THEN pc
    ELSE LET p3 == BeforeMove(pc, im, deltaTime, cameraForward, selfHit)
             p4 == Move(p3, deltaTime)
             p5 == UpdateRotation(p4, deltaTime)
         IN  UpdateMesh(p5)

\* new PlayerController(scene, inputManager, startPosition)
NewPlayerController(scene, startPosition) ==
    [scene |-> scene,
     position |-> startPosition,
     velocity |-> Vec3(0, 0, 0),
     isGrounded |-> FALSE,
     moveDirection |-> Vec3(0, 0, 0),
     targetRotation |-> 0,
     currentRotation |-> 0,
     mesh |-> [position |-> startPosition, rotationY |-> 0]]

(***************************************************************************)
(* CameraController (src/cameraController.js)                              *)
(***************************************************************************)
MouseSensitivity == 20       \* Config.camera.mouseSensitivity 0.002 rad per pixel
MinPolarAngle == 3000        \* Config.camera.minPolarAngle 0.3
SmoothingTenths == 1         \* Config.camera.smoothing 0.1

MaxPolarAngle == Pi \div 2   \* Config.camera.maxPolarAngle Math.PI / 2

CameraOffset == Vec3(0, 3000, 6000)        \* Config.camera.offset
LookAtOffset == Vec3(0, 1500, 0)           \* Config.camera.lookAtOffset

\* sin of an angle in [0, Pi], in 1/1000 (Bhaskara's approximation)
SinHalfTurn(x) ==
    LET u == (x * (Pi - x)) \div Unit
        den == 5 * ((Pi * Pi) \div Unit) - 4 * u
    IN  (1600 * u) \div (den \div 10)

\* Math.sin / Math.cos of any angle, in 1/1000
Sin(x) ==
    LET r == x % (2 * Pi)
    IN  IF r <= Pi THEN SinHalfTurn(r) ELSE -SinHalfTurn(r - Pi)

Cos(x) == Sin(x + Pi \div 2)

\* getMouseDelta: returns the stored movement and resets it
GetMouseDelta(im) == im.mouseMovement

ResetMouseMovement(im) == [im EXCEPT !.mouseMovement = [x |-> 0, y |-> 0]]

\* handleMouseInput without the clamp
HandleMouseInputUnclamped(cc, mouseDelta) ==
    [cc EXCEPT
        !.azimuthAngle = @ - mouseDelta.x * MouseSensitivity,
        !.polarAngle = @ - mouseDelta.y * MouseSensitivity]

\* handleMouseInput turning with the mouse instead of against it
HandleMouseInputInverted(cc, mouseDelta) ==
    [cc EXCEPT
        !.azimuthAngle = @ + mouseDelta.x * MouseSensitivity,
        !.polarAngle = Clamp(@ - mouseDelta.y * MouseSensitivity,
                             MinPolarAngle, MaxPolarAngle)]

HandleMouseInput(cc, mouseDelta) ==
    [cc EXCEPT
        !.azimuthAngle = @ - mouseDelta.x * MouseSensitivity,
        !.polarAngle = Clamp(@ - mouseDelta.y * MouseSensitivity,
                             MinPolarAngle, MaxPolarAngle)]

UpdateTargetPositions(cc, playerPosition) ==
    LET offsetDistance == Sqrt(CameraOffset.x * CameraOffset.x
                               + CameraOffset.y * CameraOffset.y
                               + CameraOffset.z * CameraOffset.z)
        sinPolar == Sin(cc.polarAngle)
        offset == Vec3(Quot(Quot(offsetDistance * Sin(cc.azimuthAngle), Unit) * sinPolar, Unit),
                       Quot(offsetDistance * Cos(cc.polarAngle), Unit),
                       Quot(Quot(offsetDistance * Cos(cc.azimuthAngle), Unit) * sinPolar, Unit))
    IN  [cc EXCEPT !.targetPosition = Add3(playerPosition, offset),
                   !.targetLookAt = Add3(playerPosition, LookAtOffset)]

RECURSIVE Power(_, _)
Power(base, n) == IF n = 0 THEN 1 ELSE base * Power(base, n - 1)

\* Vector3.lerp(v, t) with t = num / den
Lerp3(a, v, num, den) ==
    Vec3(a.x + Quot((v.x - a.x) * num, den),
         a.y + Quot((v.y - a.y) * num, den),
         a.z + Quot((v.z - a.z) * num, den))

\* smoothFollow: t = 1 - (1 - smoothing)^(deltaTime * 60); deltaTime * 60 is
\* the number of frames, so t = (10^n - 9^n) / 10^n for smoothing 0.1
\* an interpolation factor linear in the frame time: t = smoothing * deltaTime * 60
LinearSmoothFactor(deltaTime) == [num |-> SmoothingTenths * deltaTime, den |-> 10]

SmoothFactor(deltaTime) ==
    LET den == Power(10, deltaTime)
    IN  [num |-> den - Power(10 - SmoothingTenths, deltaTime), den |-> den]

SmoothFollow(cc, deltaTime) ==
    LET t == SmoothFactor(deltaTime)
    IN  [cc EXCEPT !.currentPosition = Lerp3(@, cc.targetPosition, t.num, t.den),
                   !.currentLookAt = Lerp3(@, cc.targetLookAt, t.num, t.den)]

ApplyToCamera(cc) ==
    [cc EXCEPT !.camera = [position |-> cc.currentPosition, lookAt |-> cc.currentLookAt]]

\* CameraController.update; returns the controller and the input manager
\* (getMouseDelta resets the stored movement)
CameraControllerUpdate(cc, im, playerPosition, deltaTime) ==
    IF cc.target = Null THEN [cameraController |-> cc, inputManager |-> im]
    ELSE LET c1 == IF im.isPointerLocked THEN HandleMouseInput(cc, GetMouseDelta(im)) ELSE cc
             im1 == IF im.isPointerLocked THEN ResetMouseMovement(im) ELSE im
             c2 == UpdateTargetPositions(c1, playerPosition)
             c3 == SmoothFollow(c2, deltaTime)
         IN  [cameraController |-> ApplyToCamera(c3), inputManager |-> im1]

\* CameraController.reset
CameraReset(cc) == [cc EXCEPT !.azimuthAngle = 0, !.polarAngle = (2 * Pi) \div 5]

\* getForwardDirection: camera.getWorldDirection, the unit vector from the
\* camera position to its look-at point
GetForwardDirection(cc) ==
    Normalize3(Vec3(cc.camera.lookAt.x - cc.camera.position.x,
                    cc.camera.lookAt.y - cc.camera.position.y,
                    cc.camera.lookAt.z - cc.camera.position.z))

\* new CameraController(camera, inputManager); Game.createCamera puts the
\* camera at (0, 5, 10)
NewCameraController ==
    [azimuthAngle |-> 0,
     polarAngle |-> Pi \div 2,
     currentPosition |-> Vec3(0, 0, 0),
     currentLookAt |-> Vec3(0, 0, 0),
     targetPosition |-> Vec3(0, 0, 0),
     targetLookAt |-> Vec3(0, 0, 0),
     target |-> Null,
     camera |-> [position |-> Vec3(0, 5000, 10000), lookAt |-> Vec3(0, 5000, 9000)]]

\* setTarget(target)
SetTarget(cc, playerPosition) ==
    LET c1 == UpdateTargetPositions([cc EXCEPT !.target = "playerController"], playerPosition)
    IN  ApplyToCamera([c1 EXCEPT !.currentPosition = c1.targetPosition,
                                 !.currentLookAt = c1.targetLookAt])

(***************************************************************************)
(* VideoScreenSystem (src/videoScreenSystem.js); volumes in 1/100          *)
(***************************************************************************)
VolumeStep == 1              \* screen.video.volume + 0.01
AudibleThreshold == 10       \* screen.video.volume > 0.1
MaxVolume == 100             \* Utils.clamp(volume, 0, 1)

\* Config.videoScreens
ConfigVideoScreens ==
    <<[id |-> "plaza-screen-1", position |-> Vec3(0, 5000, -15000),
       autoplay |-> TRUE, volume |-> 50, triggerRadius |-> 15000],
      [id |-> "building-screen-1", position |-> Vec3(-20000, 4000, 0),
       autoplay |-> TRUE, volume |-> 30, triggerRadius |-> 12000]>>

ScreenIndexes == DOMAIN ConfigVideoScreens

\* video.play(): the media element keeps a pending play promise until
\* playback starts or the request is rejected; on an element that is already
\* playing the promise is taken at once and a task is queued to resolve it
MediaPlay(video) ==
    IF video.playing THEN [video EXCEPT !.playResolving = TRUE]
    ELSE [video EXCEPT !.playPending = TRUE]

\* the browser starts playback: the media plays, the pending play promises
\* are taken and a task is queued to resolve them (currentTime 1 stands for
\* any time past the beginning)
MediaStarted(video) ==
    [video EXCEPT !.playing = TRUE, !.currentTime = 1,
                  !.playPending = FALSE, !.playResolving = TRUE]

\* video.pause(): playback stops and the promises still pending are rejected
\* (their catch callbacks only log); promises already taken stay to be resolved
MediaPause(video) == [video EXCEPT !.playing = FALSE, !.playPending = FALSE]

\* attemptAutoplay
AttemptAutoplay(screen) ==
    [screen EXCEPT !.video = MediaPlay([@ EXCEPT !.muted = TRUE, !.volume = 0])]

\* playVideo
PlayVideo(screen) ==
    [screen EXCEPT !.video = MediaPlay([@ EXCEPT !.muted = TRUE, !.volume = 0])]

\* createScreen(data)
CreateScreen(data) ==
    AttemptAutoplay(
        [id |-> data.id,
         video |-> [muted |-> TRUE, volume |-> 0, playing |-> FALSE, currentTime |-> 0,
                    playPending |-> FALSE, playResolving |-> FALSE],
         needsUpdate |-> FALSE,
         isPlaying |-> FALSE,
         autoplay |-> data.autoplay,
         targetVolume |-> data.volume,
         triggerRadius |-> data.triggerRadius,
         position |-> data.position])

\* a ramp that unmutes with its first step
RampVolumeUnmuting(screen) ==
    IF screen.video.volume < screen.targetVolume
    THEN [screen EXCEPT
            !.video.volume = Min(screen.targetVolume, @ + VolumeStep),
            !.video.muted = FALSE]
    ELSE screen

\* the ramp of updateScreen assigns video.volume a value above 1: the
\* setter of the media element throws an IndexSizeError and keeps the volume
RampThrows(screen) ==
    /\ screen.video.volume < screen.targetVolume
    /\ Min(screen.targetVolume, screen.video.volume + VolumeStep) > MaxVolume

\* the body of the volume ramp of updateScreen
RampVolume(screen) ==
    IF screen.video.volume < screen.targetVolume /\ ~RampThrows(screen)
    THEN LET volume == Min(screen.targetVolume, screen.video.volume + VolumeStep)
         IN  [screen EXCEPT !.video.volume = volume,
                            !.video.muted = IF @ /\ volume > AudibleThreshold THEN FALSE ELSE @]
    ELSE screen

\* updateScreen ends in the exception of the ramp
UpdateScreenThrows(screen, userInteracted) ==
    screen.isPlaying /\ userInteracted /\ RampThrows(screen)

\* updateScreen; hasData is video.readyState >= HAVE_CURRENT_DATA
UpdateScreen(screen, userInteracted, hasData) ==
    LET s1 == IF ~screen.isPlaying THEN PlayVideo(screen) ELSE screen
        s2 == IF s1.isPlaying /\ userInteracted THEN RampVolume(s1) ELSE s1
    IN  IF hasData /\ ~UpdateScreenThrows(screen, userInteracted)
        THEN [s2 EXCEPT !.needsUpdate = TRUE] ELSE s2

\* VideoScreenSystem.update ends in an exception of updateScreen
VideoScreenSystemUpdateThrows(vss) ==
    \E i \in ScreenIndexes : UpdateScreenThrows(vss.screens[i], vss.userInteracted)

\* VideoScreenSystem.update; hasData gives each screen's readiness.  An
\* exception of updateScreen ends the forEach: the screens after the one
\* that threw are not updated.
VideoScreenSystemUpdate(vss, playerPosition, hasData) ==
    [vss EXCEPT
        !.playerPosition = playerPosition,
        !.screens = [i \in ScreenIndexes |->
                        IF \E j \in ScreenIndexes :
                              j < i /\ UpdateScreenThrows(vss.screens[j], vss.userInteracted)
                        THEN vss.screens[i]
                        ELSE UpdateScreen(vss.screens[i], vss.userInteracted, hasData[i])]]

\* setVolume(screenId, volume)
SetVolume(vss, screenId, volume) ==
    [vss EXCEPT
        !.screens = [i \in ScreenIndexes |->
                        IF vss.screens[i].id = screenId
                        THEN [vss.screens[i] EXCEPT
                                 !.video.volume = Clamp(volume, 0, MaxVolume),
                                 !.targetVolume = volume]
                        ELSE vss.screens[i]]]

\* setMuted(screenId, muted)
SetMuted(vss, screenId, muted) ==
    [vss EXCEPT
        !.screens = [i \in ScreenIndexes |->
                        IF vss.screens[i].id = screenId
                        THEN [vss.screens[i] EXCEPT !.video.muted = muted]
                        ELSE vss.screens[i]]]

\* enableVideos without the test of userInteracted that ends later calls
EnableVideosEveryGesture(vss) ==
    [vss EXCEPT
       !.userInteracted = TRUE,
       !.screens = [i \in ScreenIndexes |->
                       IF ~vss.screens[i].isPlaying
                       THEN PlayVideo(vss.screens[i]) ELSE vss.screens[i]]]

\* enableVideos, the listener of the first click or keydown on the document
EnableVideos(vss) ==
    IF vss.userInteracted THEN vss
    ELSE [vss EXCEPT
            !.userInteracted = TRUE,
            !.screens = [i \in ScreenIndexes |->
                            IF ~vss.screens[i].isPlaying
                            THEN PlayVideo(vss.screens[i]) ELSE vss.screens[i]]]

\* pauseVideo
PauseVideo(screen) == [screen EXCEPT !.video = MediaPause(@), !.isPlaying = FALSE]

\* stopVideo
StopVideo(screen) ==
    [screen EXCEPT !.video = [MediaPause(@) EXCEPT !.currentTime = 0],
                   !.isPlaying = FALSE]

\* the .then / .catch callbacks of a play promise
OnPlayResolved(screen) ==
    [screen EXCEPT !.isPlaying = TRUE, !.video.playPending = FALSE,
                   !.video.playResolving = FALSE]

\* a .catch callback that takes the request for started
OnPlayRejectedAsStarted(screen) ==
    [screen EXCEPT !.isPlaying = TRUE, !.video.playPending = FALSE]

OnPlayRejected(screen) == [screen EXCEPT !.video.playPending = FALSE]

\* new VideoScreenSystem(scene) followed by createScreensFromConfig()
NewVideoScreenSystem ==
    [screens |-> [i \in ScreenIndexes |-> CreateScreen(ConfigVideoScreens[i])],
     playerPosition |-> Vec3(0, 0, 0),
     userInteracted |-> FALSE]

(***************************************************************************)
(* SceneManager.update and Game (src/unnamed/part_001, src/main.js)        *)
(***************************************************************************)
\* new Game(): nothing runs yet
NewGame ==
    [initialized |-> FALSE, isRunning |-> FALSE, frameRequested |-> FALSE,
     loadingTimer |-> FALSE, loadingHidden |-> FALSE, errorShown |-> FALSE,
     awaiting |-> "none", disposed |-> FALSE]

\* the game once init() has succeeded and the loading screen is hidden
RunningGame ==
    [initialized |-> TRUE, isRunning |-> TRUE, frameRequested |-> TRUE,
     loadingTimer |-> FALSE, loadingHidden |-> TRUE, errorShown |-> FALSE,
     awaiting |-> "none", disposed |-> FALSE]

\* the whole program a frame acts on: the world and the controllers
Program ==
    World @@ [playerController |-> playerController,
              cameraController |-> cameraController,
              frames |-> frames, game |-> game, rendered |-> FALSE]

\* the statements of SceneManager.update that follow the interaction
\* system's update: none when it threw
UpdateVideoScreens(g, hasData) ==
    IF g.thrown THEN g
    ELSE [g EXCEPT !.videoScreenSystem =
             VideoScreenSystemUpdate(@, g.playerController.position, hasData),
                   !.thrown = VideoScreenSystemUpdateThrows(g.videoScreenSystem)]

\* the program with the player and the result of the camera's update
\* (the controller, and the input manager whose mouse delta it has read)
WithControllers(g, pc, r) ==
    [g EXCEPT !.playerController = pc,
              !.cameraController = r.cameraController,
              !.inputManager = r.inputManager,
              !.frames = @ + 1]

\* cameraController.update(deltaTime) of a frame, following the player pc
UpdateCamera(g, pc, deltaTime) ==
    WithControllers(g, pc, CameraControllerUpdate(g.cameraController, g.inputManager,
                                                  pc.position, deltaTime))

\* playerController.update(deltaTime, cameraForward) of a frame, turned by
\* the camera r.cameraController
UpdatePlayer(g, r, deltaTime, selfHit) ==
    WithControllers(g, PlayerControllerUpdate(g.playerController, g.inputManager, deltaTime,
                                              GetForwardDirection(r.cameraController),
                                              selfHit),
                    r)

\* a frame that updates the camera before the player
SceneManagerUpdateCameraFirst(g, deltaTime, hit, hasData, selfHit) ==
    UpdateVideoScreens(
        InteractionSystemUpdate(
            UpdatePlayer(g, CameraControllerUpdate(g.cameraController, g.inputManager,
                                                   g.playerController.position, deltaTime),
                         deltaTime, selfHit),
            hit),
        hasData)

\* SceneManager.update; deltaTime is clock.getDelta(), hit the raycast result
\* of the interaction system, hasData the readiness of the videos, selfHit
\* whether the ground ray meets the player's capsule
SceneManagerUpdate(g, deltaTime, hit, hasData, selfHit) ==
    UpdateVideoScreens(
        InteractionSystemUpdate(
            UpdateCamera(g, PlayerControllerUpdate(g.playerController, g.inputManager,
                                                   deltaTime,
                                                   GetForwardDirection(g.cameraController),
                                                   selfHit),
                         deltaTime),
            hit),
        hasData)

\* SceneManager.render, which a frame reaches unless update threw
Render(g) == IF g.thrown THEN g ELSE [g EXCEPT !.rendered = TRUE]

\* Game.animate
Animate(g, deltaTime, hit, hasData, selfHit) ==
    IF ~g.game.isRunning THEN g
    ELSE Render(SceneManagerUpdate([g EXCEPT !.game.frameRequested = TRUE],
                                   deltaTime, hit, hasData, selfHit))

\* Game.showError
ShowError(g) ==
    IF ~HasElement(g.document, "loading-screen") THEN Throw(g)
    ELSE [g EXCEPT !.game.errorShown = TRUE]

\* the catch block of Game.init
CatchError(g) == IF g.thrown THEN ShowError([g EXCEPT !.thrown = FALSE]) ELSE g

\* Game.init up to its await: the renderer, scene and camera are created and
\* SceneManager.init() runs to its end (it awaits nothing) or throws where the
\* InteractionSystem constructor registers the listener of the close button;
\* init then waits for the promise that call returned
GameInitStart(g) ==
    [g EXCEPT !.game.initialized = TRUE,
              !.game.awaiting = IF HasElement(g.document, "close-panel")
                                THEN "resolved" ELSE "rejected"]

\* Game.init from its await on: a rejection is caught; otherwise the loading
\* screen is set to hide, the loop is started and the first frame runs
\* inside the try block
GameInitResume(g, deltaTime, hit, hasData, selfHit) ==
    IF g.game.awaiting = "rejected"
    THEN CatchError(Throw([g EXCEPT !.game.awaiting = "none"]))
    ELSE CatchError(Animate([g EXCEPT !.game.awaiting = "none",
                                      !.game.loadingTimer = TRUE,
                                      !.game.isRunning = TRUE],
                            deltaTime, hit, hasData, selfHit))

\* Game.init when nothing runs between the await and its continuation
GameInit(g, deltaTime, hit, hasData, selfHit) ==
    GameInitResume(GameInitStart(g), deltaTime, hit, hasData, selfHit)

\* Game.dispose: the loop is told to stop and the scene manager and the
\* renderer release their resources (the released objects are not followed
\* further)
GameDispose(g) == [g EXCEPT !.game.isRunning = FALSE, !.game.disposed = TRUE]

\* the timer callback of hideLoadingScreen
OnLoadingTimeout(g) ==
    LET g1 == [g EXCEPT !.game.loadingTimer = FALSE]
    IN  IF ~HasElement(g.document, "loading-screen") THEN Throw(g1)
        ELSE [g1 EXCEPT !.game.loadingHidden = TRUE]

(***************************************************************************)
(* Bounds of the exploration                                               *)
(***************************************************************************)
ArenaHalfWidth == 500    \* player ticks are explored within this range of the start
MaxRotation == 100       \* ... and while the facing angle is within this range of 0
MaxFrames == 2           \* camera updates explored

\* the start position SceneManager.init passes, and two more constructor
\* arguments: just above the floor level past the edge of the ground plane,
\* where the ray still meets the last grid line, in the air beside a
\* building, and just above the roof of that building (top at y = 6)
ConfigStartPosition == Vec3(0, 0, 15000)

StartPositions ==
    {ConfigStartPosition, Vec3(2000, 960, 100750), Vec3(15000, 1200, -20000),
     Vec3(15000, 6950, -15000)}

\* a collidable scene child the configuration does not have: a box that
\* hangs over the start position, its underside 1.5 above the ground (above
\* the origin of the ground ray of a player on the floor, which therefore
\* does not meet it)
Overhang == [min |-> Vec3(-2000, 1500, 13000), max |-> Vec3(2000, 3000, 17000)]

\* placements of collidable boxes: the configured buildings, alone and with
\* the overhang
Scenes == {ConfigCollidables, ConfigCollidables \cup {Overhang}}

\* deltaTime values of a frame, in 1/60 s: the player is driven at 20 and
\* 10 frames per second, the camera at 60 and 30
DeltaTimes == {3, 6}

FrameTimes == {1, 2}

\* the browsers the player and the camera are explored in: one with the
\* standard property alone, one with all three
StandardBrowsers ==
    {d \in Browsers : /\ d.pointerLockElement = Null
                      /\ d.mozPointerLockElement = d.webkitPointerLockElement}

\* camera.getWorldDirection results the player is driven with: looking
\* along +z pitched down, and straight down (no horizontal component)
CameraForwards == {Vec3(0, -447, 894), Vec3(0, -1000, 0)}

\* mousemove events: a diagonal move, a horizontal move of 1000 pixels, and
\* vertical sweeps far beyond the polar range in both directions
MouseDeltas ==
    {[x |-> -300, y |-> 40], [x |-> 1000, y |-> 0],
     [x |-> 0, y |-> 100000], [x |-> 0, y |-> -100000]}

\* facing angles updateRotation is applied to: target angles as Math.atan2
\* returns them, current angles within and beyond one turn
TargetRotations == {-31300, -(Pi \div 2), 0, Pi \div 2, 31300, Pi}

CurrentRotations ==
    {-3 * Pi, -2 * Pi - 100, -40000, -31300, -Pi, -100, 0, 7, 100, Pi, 31300, 40000,
     2 * Pi + 100, 3 * Pi, 10 * Pi + 100}

\* scene trees findInteractableParent is applied to: every forest of three
\* objects (parentOf gives each object's parent, Null for a root)
TreeNodes == {"group", "mesh", "child"}

StepUp(parentOf, node) == IF node = Null THEN Null ELSE parentOf[node]

SceneTrees ==
    {parentOf \in [TreeNodes -> TreeNodes \cup {Null}] :
        \A n \in TreeNodes :
            /\ StepUp(parentOf, n) # n
            /\ StepUp(parentOf, StepUp(parentOf, n)) # n
            /\ StepUp(parentOf, StepUp(parentOf, StepUp(parentOf, n))) # n}

\* camera positions and orbit angles smoothFollow is applied from
CameraStarts == {Vec3(0, 0, 0), Vec3(0, 5000, 10000), Vec3(-7333, 2501, 20017)}

CameraAzimuths == {0, 7000, -20000}

(***************************************************************************)
(* State after construction (SceneManager.init)                            *)
(***************************************************************************)
InitInput(browsers) ==
    /\ document \in browsers
    /\ inputManager = [keys |-> {}, mouseMovement |-> [x |-> 0, y |-> 0],
                       isPointerLocked |-> FALSE]

InitInteraction ==
    /\ interactionSystem =
          [currentInteractable |-> Null, isPanelOpen |-> FALSE,
           promptVisible |-> FALSE, panelVisible |-> FALSE,
           panelTitle |-> "", panelContent |-> <<>>]
    /\ material = [m \in Materials |-> InitialMaterial(m)]
    /\ userData = [m \in Meshes |-> NoUserData]

InitPlayerAt(startPosition) ==
    /\ playerController = NewPlayerController(ConfigCollidables, startPosition)
    /\ cameraController = SetTarget(NewCameraController, startPosition)

InitVideo == videoScreenSystem = NewVideoScreenSystem

\* the program as SceneManager.init builds it
Init ==
    /\ InitInput(Browsers)
    /\ InitInteraction
    /\ InitPlayerAt(ConfigStartPosition)
    /\ InitVideo
    /\ frames = 0
    /\ game = RunningGame
    /\ observed = [handler |-> "init"]

\* the same in the standard browsers, with the PlayerController constructed
\* at any of the start positions
InitAnywhere ==
    /\ InitInput(StandardBrowsers)
    /\ InitInteraction
    /\ \E startPosition \in StartPositions : InitPlayerAt(startPosition)
    /\ InitVideo
    /\ frames = 0
    /\ game = RunningGame
    /\ observed = [handler |-> "init"]

\* the same at the configured start position, in any of the scenes
InitCollision ==
    /\ InitInput(StandardBrowsers)
    /\ InitInteraction
    /\ \E scene \in Scenes :
          /\ playerController = NewPlayerController(scene, ConfigStartPosition)
          /\ cameraController = SetTarget(NewCameraController, ConfigStartPosition)
    /\ InitVideo
    /\ frames = 0
    /\ game = RunningGame
    /\ observed = [handler |-> "init"]

\* the pages the game is started in: complete, or lacking one element
ElementSets == {UIElements} \cup {UIElements \ {id} : id \in UIElements}

\* new Game() in one of the pages, before init()
InitGameIn(pages) ==
    /\ \E d \in StandardBrowsers, elements \in pages :
          document = [d EXCEPT !.elements = elements]
    /\ inputManager = [keys |-> {}, mouseMovement |-> [x |-> 0, y |-> 0],
                       isPointerLocked |-> FALSE]
    /\ InitInteraction
    /\ InitPlayerAt(ConfigStartPosition)
    /\ InitVideo
    /\ frames = 0
    /\ game = NewGame
    /\ observed = [handler |-> "new Game"]

\* in the complete page
InitGame == InitGameIn({UIElements})

\* in a page that may lack an element
InitStartup == InitGameIn(ElementSets)

\* a player facing currentRotation and turning to targetRotation
InitRotation ==
    /\ InitInput(StandardBrowsers)
    /\ InitInteraction
    /\ \E currentRotation \in CurrentRotations, targetRotation \in TargetRotations :
          /\ playerController =
                [NewPlayerController(ConfigCollidables, ConfigStartPosition) EXCEPT
                    !.currentRotation = currentRotation, !.targetRotation = targetRotation]
          /\ cameraController = SetTarget(NewCameraController, ConfigStartPosition)
    /\ InitVideo
    /\ frames = 0
    /\ game = RunningGame
    /\ observed = [handler |-> "init"]

\* a camera at currentPosition following the fixed target of an orbit angle
InitSmooth ==
    /\ InitInput(StandardBrowsers)
    /\ InitInteraction
    /\ playerController = NewPlayerController(ConfigCollidables, ConfigStartPosition)
    /\ \E currentPosition \in CameraStarts, azimuthAngle \in CameraAzimuths :
          cameraController =
              UpdateTargetPositions(
                  [SetTarget(NewCameraController, ConfigStartPosition) EXCEPT
                      !.currentPosition = currentPosition, !.azimuthAngle = azimuthAngle],
                  ConfigStartPosition)
    /\ InitVideo
    /\ frames = 0
    /\ game = RunningGame
    /\ observed = [handler |-> "init"]

(***************************************************************************)
(* Actions: one per event or per-frame handler                             *)
(***************************************************************************)
Commit(w, obs) ==
    /\ document' = w.document
    /\ inputManager' = w.inputManager
    /\ interactionSystem' = w.interactionSystem
    /\ material' = w.material
    /\ userData' = w.userData
    /\ videoScreenSystem' = w.videoScreenSystem
    /\ observed' = obs

\* the document listener enableVideos, run on the world
OnUserGesture(w) == [w EXCEPT !.videoScreenSystem = EnableVideos(@)]

\* a keydown event on the document: the listeners run in registration order
\* (InputManager.init, InteractionSystem.setupUIHandlers, then
\* VideoScreenSystem.setupUserInteractionListener)
KeyDown(code) ==
    /\ Commit(OnUserGesture(OnPanelKeyDown(OnKeyDown(World, code), code)),
              [handler |-> "keydown", code |-> code])
    /\ UNCHANGED <<playerController, cameraController, frames, game>>

KeyUp(code) ==
    /\ Commit(OnKeyUp(World, code), [handler |-> "keyup", code |-> code])
    /\ UNCHANGED <<playerController, cameraController, frames, game>>

MouseMove(movement) ==
    /\ Commit(OnMouseMove(World, movement.x, movement.y),
              [handler |-> "mousemove", movement |-> movement])
    /\ UNCHANGED <<playerController, cameraController, frames, game>>

\* a click on the canvas: InputManager.onClick, then the document's click
\* listener enableVideos as the event bubbles
CanvasClick ==
    /\ Commit(OnUserGesture(OnClick(World)), [handler |-> "click"])
    /\ UNCHANGED <<playerController, cameraController, frames, game>>

\* a click on the close button: its listener, then enableVideos
ClosePanelClick ==
    /\ Commit(OnUserGesture(ClosePanel(World)), [handler |-> "closePanel"])
    /\ UNCHANGED <<playerController, cameraController, frames, game>>

\* The browser carries out a pending requestPointerLock / exitPointerLock and
\* dispatches pointerlockchange when the lock state changed.
BrowserPointerLock ==
    /\ document.lockRequest # "none"
    /\ LET elem == IF document.lockRequest = "lock" THEN "canvas" ELSE Null
           changed == HoldsLock(document) # (elem = "canvas")
           w1 == [World EXCEPT !.document = [SetLock(@, elem) EXCEPT !.lockRequest = "none"]]
       IN  Commit(IF changed THEN OnPointerLockChange(w1) ELSE w1,
                  [handler |-> "pointerlockchange"])
    /\ UNCHANGED <<playerController, cameraController, frames, game>>

\* The user leaves pointer lock through the browser (its own Escape handling,
\* a focus change); the browser dispatches pointerlockchange.
BrowserUnlock ==
    /\ HoldsLock(document)
    /\ Commit(OnPointerLockChange([World EXCEPT !.document = SetLock(@, Null)]),
              [handler |-> "pointerlockchange"])
    /\ UNCHANGED <<playerController, cameraController, frames, game>>

\* One InteractionSystem.update of a frame, for a raycast result
\* the world w an update left, and what the update did
CommitUpdate(w, hit) ==
    Commit(w, [handler |-> "InteractionSystem.update", hit |-> hit,
               before |-> interactionSystem.currentInteractable,
               ran |-> ~interactionSystem.isPanelOpen /\ inputManager.isPointerLocked,
               opened |-> ~interactionSystem.isPanelOpen /\ w.interactionSystem.isPanelOpen,
               ops |-> w.ops])

InteractionTick(hit) ==
    /\ CommitUpdate(InteractionSystemUpdate(World, hit), hit)
    /\ UNCHANGED <<playerController, cameraController, frames, game>>

InArena(position) ==
    \E s \in StartPositions :
        /\ Abs(position.x - s.x) <= ArenaHalfWidth
        /\ Abs(position.z - s.z) <= ArenaHalfWidth

\* One PlayerController.update of a frame
PlayerTick(deltaTime, cameraForward, selfHit) ==
    /\ InArena(playerController.position)
    /\ Abs(playerController.currentRotation) <= MaxRotation
    /\ playerController' =
          PlayerControllerUpdate(playerController, inputManager, deltaTime,
                                 cameraForward, selfHit)
    /\ observed' = [handler |-> "PlayerController.update",
                    active |-> inputManager.isPointerLocked,
                    zeroInput |-> GetMovementInput(inputManager) = [x |-> 0, y |-> 0],
                    wasGrounded |-> playerController.isGrounded,
                    deltaTime |-> deltaTime,
                    selfHit |-> selfHit,
                    cameraForward |-> cameraForward,
                    movedBelowFloor |->
                        /\ inputManager.isPointerLocked
                        /\ MovedPosition(BeforeMove(playerController, inputManager, deltaTime,
                                                    cameraForward, selfHit),
                                         deltaTime).y < HalfHeight]
    /\ UNCHANGED <<document, inputManager, interactionSystem, material, userData,
                   cameraController, videoScreenSystem, frames, game>>

\* One CameraController.update of a frame
CameraTick(deltaTime) ==
    /\ frames < MaxFrames
    /\ LET r == CameraControllerUpdate(cameraController, inputManager,
                                       playerController.position, deltaTime)
       IN  /\ cameraController' = r.cameraController
           /\ inputManager' = r.inputManager
    /\ frames' = frames + 1
    /\ observed' = [handler |-> "CameraController.update",
                    active |-> inputManager.isPointerLocked]
    /\ UNCHANGED <<document, interactionSystem, material, userData,
                   playerController, videoScreenSystem, game>>

\* CameraController.reset()
CameraResetCall ==
    /\ cameraController' = CameraReset(cameraController)
    /\ observed' = [handler |-> "CameraController.reset"]
    /\ UNCHANGED <<document, inputManager, interactionSystem, material, userData,
                   playerController, videoScreenSystem, frames, game>>

\* One VideoScreenSystem.update of a frame
VideoTick(hasData) ==
    /\ videoScreenSystem' =
          VideoScreenSystemUpdate(videoScreenSystem, playerController.position, hasData)
    /\ observed' = [handler |-> "VideoScreenSystem.update",
                    before |-> [i \in ScreenIndexes |-> videoScreenSystem.screens[i].video],
                    threw |-> VideoScreenSystemUpdateThrows(videoScreenSystem)]
    /\ UNCHANGED <<document, inputManager, interactionSystem, material, userData,
                   playerController, cameraController, frames, game>>

\* the browser settles the play promises of a media element: it resolves
\* the promises it has taken, or starts playback and resolves the pending ones
PlayResolved(i) ==
    /\ \/ videoScreenSystem.screens[i].video.playPending
       \/ videoScreenSystem.screens[i].video.playResolving
    /\ videoScreenSystem' =
          [videoScreenSystem EXCEPT !.screens[i] =
              IF @.video.playResolving THEN OnPlayResolved(@)
              ELSE OnPlayResolved([@ EXCEPT !.video = MediaStarted(@)])]
    /\ observed' = [handler |-> "play.then", screen |-> i]
    /\ UNCHANGED <<document, inputManager, interactionSystem, material, userData,
                   playerController, cameraController, frames, game>>

PlayRejected(i) ==
    /\ videoScreenSystem.screens[i].video.playPending
    /\ videoScreenSystem' = [videoScreenSystem EXCEPT !.screens[i] = OnPlayRejected(@)]
    /\ observed' = [handler |-> "play.catch", screen |-> i]
    /\ UNCHANGED <<document, inputManager, interactionSystem, material, userData,
                   playerController, cameraController, frames, game>>

\* the browser starts the playback of a media element with a pending play
\* promise; the task that resolves the promise is queued and runs later
PlaybackStarts(i) ==
    /\ videoScreenSystem.screens[i].video.playPending
    /\ videoScreenSystem' = [videoScreenSystem EXCEPT !.screens[i].video = MediaStarted(@)]
    /\ observed' = [handler |-> "playing", screen |-> i]
    /\ UNCHANGED <<document, inputManager, interactionSystem, material, userData,
                   playerController, cameraController, frames, game>>

\* calls of pauseVideo and stopVideo with a screen of the system
PauseVideoCall(i) ==
    /\ videoScreenSystem' = [videoScreenSystem EXCEPT !.screens[i] = PauseVideo(@)]
    /\ observed' = [handler |-> "pauseVideo", screen |-> i]
    /\ UNCHANGED <<document, inputManager, interactionSystem, material, userData,
                   playerController, cameraController, frames, game>>

StopVideoCall(i) ==
    /\ videoScreenSystem' = [videoScreenSystem EXCEPT !.screens[i] = StopVideo(@)]
    /\ observed' = [handler |-> "stopVideo", screen |-> i]
    /\ UNCHANGED <<document, inputManager, interactionSystem, material, userData,
                   playerController, cameraController, frames, game>>

\* calls of setVolume and setMuted
SetVolumeCall(screenId, volume) ==
    /\ videoScreenSystem' = SetVolume(videoScreenSystem, screenId, volume)
    /\ observed' = [handler |-> "setVolume", screenId |-> screenId, volume |-> volume]
    /\ UNCHANGED <<document, inputManager, interactionSystem, material, userData,
                   playerController, cameraController, frames, game>>

SetMutedCall(screenId, muted) ==
    /\ videoScreenSystem' = SetMuted(videoScreenSystem, screenId, muted)
    /\ observed' = [handler |-> "setMuted", screenId |-> screenId, muted |-> muted]
    /\ UNCHANGED <<document, inputManager, interactionSystem, material, userData,
                   playerController, cameraController, frames, game>>

\* a call of findInteractableParent with an object of a scene tree
FindInteractableParentCall(parentOf, interactables, object) ==
    /\ observed' = [handler |-> "findInteractableParent",
                    parentOf |-> parentOf, interactables |-> interactables,
                    object |-> object,
                    result |-> FindInteractableParentIn(parentOf, interactables, object)]
    /\ UNCHANGED <<document, inputManager, interactionSystem, material, userData,
                   playerController, cameraController, videoScreenSystem, frames, game>>

\* One PlayerController.updateRotation
RotationStep(deltaTime) ==
    /\ playerController' = UpdateRotation(playerController, deltaTime)
    /\ observed' = [handler |-> "PlayerController.updateRotation",
                    before |-> playerController.currentRotation]
    /\ UNCHANGED <<document, inputManager, interactionSystem, material, userData,
                   cameraController, videoScreenSystem, frames, game>>

\* One CameraController.smoothFollow
SmoothStep(deltaTime) ==
    /\ cameraController' = SmoothFollow(cameraController, deltaTime)
    /\ observed' = [handler |-> "CameraController.smoothFollow", deltaTime |-> deltaTime]
    /\ UNCHANGED <<document, inputManager, interactionSystem, material, userData,
                   playerController, videoScreenSystem, frames, game>>

\* the program a frame or init() leaves, and what it did
CommitProgram(g, handler) ==
    /\ Commit(g, [handler |-> handler,
                  active |-> inputManager.isPointerLocked,
                  ticked |-> g.frames # frames,
                  threw |-> g.thrown,
                  rendered |-> g.rendered])
    /\ playerController' = g.playerController
    /\ cameraController' = g.cameraController
    /\ frames' = g.frames
    /\ game' = g.game

\* window.game.init()
GameInitCall(deltaTime, hit, hasData, selfHit) ==
    /\ ~game.initialized
    /\ CommitProgram(GameInit(Program, deltaTime, hit, hasData, selfHit), "Game.init")

\* the animation frame callback requestAnimationFrame scheduled
AnimationFrame(deltaTime, hit, hasData, selfHit) ==
    /\ game.frameRequested
    /\ frames < MaxFrames
    /\ CommitProgram(Animate([Program EXCEPT !.game.frameRequested = FALSE],
                             deltaTime, hit, hasData, selfHit),
                     "Game.animate")

\* the timer of hideLoadingScreen fires
\* init() is called and reaches its await
GameInitBegin ==
    /\ ~game.initialized
    /\ CommitProgram(GameInitStart(Program), "Game.init")

\* the continuation of init() runs
GameInitContinue(deltaTime, hit, hasData, selfHit) ==
    /\ game.awaiting # "none"
    /\ CommitProgram(GameInitResume(Program, deltaTime, hit, hasData, selfHit),
                     "Game.init resumed")

GameDisposeCall ==
    /\ ~game.disposed
    /\ CommitProgram(GameDispose(Program), "Game.dispose")

LoadingTimeout ==
    /\ game.loadingTimer
    /\ CommitProgram(OnLoadingTimeout(Program), "hideLoadingScreen")

(***************************************************************************)
(* Specifications: the interaction state machine, the player, the camera   *)
(* and the video screens, each with the events that drive it               *)
(***************************************************************************)
InteractionKeys == {"KeyE", "Escape"}

NextInteraction ==
    \/ \E code \in InteractionKeys : KeyDown(code)
    \/ \E code \in InteractionKeys : KeyUp(code)
    \/ CanvasClick
    \/ ClosePanelClick
    \/ BrowserPointerLock
    \/ BrowserUnlock
    \/ \E hit \in Meshes \cup {Null} : InteractionTick(hit)

SpecInteraction == Init /\ [][NextInteraction]_vars

PlayerKeys == {"KeyW", "KeyS", "ShiftLeft"}

NextPlayer ==
    \/ \E code \in PlayerKeys : KeyDown(code)
    \/ \E code \in PlayerKeys : KeyUp(code)
    \/ CanvasClick
    \/ BrowserPointerLock
    \/ BrowserUnlock
    \/ \E deltaTime \in DeltaTimes, cameraForward \in CameraForwards, selfHit \in BOOLEAN :
          PlayerTick(deltaTime, cameraForward, selfHit)

SpecPlayer == InitAnywhere /\ [][NextPlayer]_vars

SpecCollision == InitCollision /\ [][NextPlayer]_vars

\* the player steered with all four movement keys, the camera looking
\* slightly to the side of +z or straight down
MoveKeys == {"KeyW", "KeyS", "KeyA", "KeyD"}

SteerForwards == {Vec3(10, -447, 894), Vec3(0, -1000, 0)}

InitSteer == InitAnywhere /\ playerController.position = ConfigStartPosition

NextSteer ==
    \/ \E code \in MoveKeys : KeyDown(code)
    \/ \E code \in MoveKeys : KeyUp(code)
    \/ CanvasClick
    \/ BrowserPointerLock
    \/ \E deltaTime \in DeltaTimes, cameraForward \in SteerForwards :
          PlayerTick(deltaTime, cameraForward, FALSE)

SpecSteer == InitSteer /\ [][NextSteer]_vars

NextCamera ==
    \/ \E movement \in MouseDeltas : MouseMove(movement)
    \/ CanvasClick
    \/ BrowserPointerLock
    \/ BrowserUnlock
    \/ \E deltaTime \in FrameTimes : CameraTick(deltaTime)
    \/ CameraResetCall

SpecCamera == InitAnywhere /\ [][NextCamera]_vars

NextVideo ==
    \/ KeyDown("KeyE")
    \/ CanvasClick
    \/ \E ready \in BOOLEAN : VideoTick([i \in ScreenIndexes |-> ready])
    \/ \E i \in ScreenIndexes : PlayResolved(i)
    \/ \E i \in ScreenIndexes : PlayRejected(i)

SpecVideo == Init /\ [][NextVideo]_vars

\* the video screens with the calls that pause them, the start of playback
\* and the resolution of its promises being separate steps of the browser
NextPlayback ==
    \/ CanvasClick
    \/ VideoTick([i \in ScreenIndexes |-> TRUE])
    \/ \E i \in ScreenIndexes : PlayResolved(i)
    \/ \E i \in ScreenIndexes : PlayRejected(i)
    \/ \E i \in ScreenIndexes : PlaybackStarts(i)
    \/ \E i \in ScreenIndexes : PauseVideoCall(i)
    \/ \E i \in ScreenIndexes : StopVideoCall(i)

SpecPlayback == Init /\ [][NextPlayback]_vars

\* the arguments of setVolume and setMuted: the first configured screen and
\* an id no screen has; volumes below 0, at and below the audible threshold
\* and above 1
VolumeScreenIds == {"plaza-screen-1", "no-such-screen"}

Volumes == {-50, 5, 10, 150}

\* the video screens with the calls that set the volume
NextVolume ==
    \/ CanvasClick
    \/ VideoTick([i \in ScreenIndexes |-> TRUE])
    \/ \E i \in ScreenIndexes : PlayResolved(i)
    \/ \E screenId \in VolumeScreenIds, volume \in Volumes : SetVolumeCall(screenId, volume)

SpecVolume == Init /\ [][NextVolume]_vars

\* target volumes within (0, 1]: at the audible threshold, and well above it
RampVolumes == {10, 80}

\* the video screens with the calls that set volume and muting of the first
\* screen, the frames going on: the animation loop keeps calling update
NextRamp ==
    \/ CanvasClick
    \/ VideoTick([i \in ScreenIndexes |-> TRUE])
    \/ \E i \in ScreenIndexes : PlayResolved(i)
    \/ \E volume \in RampVolumes : SetVolumeCall("plaza-screen-1", volume)
    \/ \E muted \in BOOLEAN : SetMutedCall("plaza-screen-1", muted)

SpecRamp ==
    /\ Init
    /\ [][NextRamp]_vars
    /\ WF_vars(VideoTick([i \in ScreenIndexes |-> TRUE]))

\* keys, raycast results and mouse movement the whole game is driven with
GameKeys == {"KeyW", "KeyE"}

GameHits == {Null, "info-kiosk-1"}

GameMouseDeltas == {[x |-> 1000, y |-> 0]}

\* the game from new Game() on; the listeners exist once SceneManager.init
\* has run through
NextGame ==
    \/ \E deltaTime \in FrameTimes, ready \in BOOLEAN :
          GameInitCall(deltaTime, Null, [i \in ScreenIndexes |-> ready], FALSE)
    \/ \E deltaTime \in FrameTimes, hit \in GameHits, ready \in BOOLEAN :
          AnimationFrame(deltaTime, hit, [i \in ScreenIndexes |-> ready], FALSE)
    \/ LoadingTimeout
    \/ game.isRunning /\ \E code \in GameKeys : KeyDown(code)
    \/ game.isRunning /\ \E movement \in GameMouseDeltas : MouseMove(movement)
    \/ game.isRunning /\ CanvasClick
    \/ game.isRunning /\ BrowserPointerLock
    \/ game.isRunning /\ BrowserUnlock

SpecGame == InitGame /\ [][NextGame]_vars

\* the life of a Game from new Game() to dispose(), which may be called at
\* any time, the await of init() included; input reaches the listeners
\* while they are registered
NextLifecycle ==
    \/ GameInitBegin
    \/ \E deltaTime \in FrameTimes, ready \in BOOLEAN :
          GameInitContinue(deltaTime, Null, [i \in ScreenIndexes |-> ready], FALSE)
    \/ \E deltaTime \in FrameTimes, hit \in GameHits, ready \in BOOLEAN :
          AnimationFrame(deltaTime, hit, [i \in ScreenIndexes |-> ready], FALSE)
    \/ LoadingTimeout
    \/ GameDisposeCall
    \/ game.isRunning /\ \E code \in GameKeys : KeyDown(code)
    \/ game.isRunning /\ CanvasClick
    \/ game.isRunning /\ BrowserPointerLock

SpecLifecycle == InitStartup /\ [][NextLifecycle]_vars

SpecStartup == InitStartup /\ [][NextGame]_vars

NextTree ==
    \E parentOf \in SceneTrees, interactables \in SUBSET TreeNodes, object \in TreeNodes :
        FindInteractableParentCall(parentOf, interactables, object)

SpecTree == Init /\ [][NextTree]_vars

NextRotation == \E deltaTime \in DeltaTimes : RotationStep(deltaTime)

SpecRotation == InitRotation /\ [][NextRotation]_vars

NextSmooth == \E deltaTime \in FrameTimes : SmoothStep(deltaTime)

SpecSmooth == InitSmooth /\ [][NextSmooth]_vars

(***************************************************************************)
(* Properties of the interaction state machine                             *)
(***************************************************************************)
HighlightValues == [emissive |-> HighlightColor, emissiveIntensity |-> HighlightIntensity]

\* every mesh material of obj is at the configured highlight values
Highlighted(obj) ==
    \A i \in DOMAIN TraverseOf[obj] :
        IsMeshOf[TraverseOf[obj][i]] => material[MaterialOfMesh[TraverseOf[obj][i]]] = HighlightValues

\* every mesh material of obj has the emissive values it was created with
Pristine(obj) ==
    \A i \in DOMAIN TraverseOf[obj] :
        IsMeshOf[TraverseOf[obj][i]] =>
            material[MaterialOfMesh[TraverseOf[obj][i]]] = InitialMaterial(MaterialOfMesh[TraverseOf[obj][i]])

IsHighlightOp(e) == e.op \in {"apply", "clear"}

ActiveTick == observed.handler = "InteractionSystem.update" /\ observed.ran

\* the interactable a raycast result resolves to (Null on a miss)
ResolvedTarget(hit) == FindInteractableParent(hit)

\* C1: on every update that runs with the pointer captured and no panel open,
\* the highlight operations performed are exactly: clear(previous target) when
\* there was a target and the raycast resolves to something else (another
\* interactable or nothing), then apply(X) when the raycast resolves to an
\* interactable X that is not the previous target; a re-hit of the current
\* target performs no highlight operation.  (When the interact key opens the
\* panel on the same tick, interact() then clears the target it opens.)
C1_HighlightArbitration ==
    ActiveTick =>
        LET prev == observed.before
            x == ResolvedTarget(observed.hit)
            cleared == IF prev # Null /\ x # prev
                       THEN <<[op |-> "clear", object |-> prev]>> ELSE <<>>
            applied == IF x # Null /\ x # prev
                       THEN <<[op |-> "apply", object |-> x]>> ELSE <<>>
            onOpen == IF observed.opened
                      THEN <<[op |-> "clear", object |-> x]>> ELSE <<>>
        IN  SelectSeq(observed.ops, IsHighlightOp) = cleared \o applied \o onOpen

\* C1 witness: a tick that moves the target from one interactable to another
\* (clear(A) + apply(B)) without opening the panel
C1_Witness ==
    /\ ActiveTick
    /\ ~observed.opened
    /\ observed.before # Null
    /\ ResolvedTarget(observed.hit) \notin {Null, observed.before}
    /\ Len(observed.ops) = 3

\* C3: at most one registered interactable has the highlight applied to its
\* materials
C3_AtMostOneHighlighted ==
    Cardinality({obj \in Interactables : Highlighted(obj)}) <= 1

\* C4: once the highlight of an interactable has been cleared (the last
\* highlight operation of the last update on it is a clear), every mesh
\* material of it has the emissive colour and intensity it had before the
\* interactable was first highlighted
C4_ClearRestoresOriginal ==
    observed.handler = "InteractionSystem.update" =>
        \A obj \in Interactables :
            LET onObj == SelectSeq(observed.ops,
                                   LAMBDA e : IsHighlightOp(e) /\ e.object = obj)
            IN  (onObj # <<>> /\ onObj[Len(onObj)].op = "clear") => Pristine(obj)

\* C2: opening a panel leaves no target and no highlighted interactable, shows
\* the target's title and formatted body and requests release of the pointer;
\* an update with the panel open performs no raycast and changes nothing;
\* closing an open panel (button or Escape) leaves the panel closed with no
\* target and no highlight
C2_PanelLifecycle ==
    [][ /\ (~interactionSystem.isPanelOpen /\ interactionSystem'.isPanelOpen) =>
              /\ interactionSystem'.currentInteractable = Null
              /\ \A obj \in Interactables : ~Highlighted(obj)'
              /\ interactionSystem.currentInteractable # Null \/ observed'.hit # Null
              /\ LET data == InteractionDataOf[ResolvedTarget(observed'.hit)]
                 IN  /\ interactionSystem'.panelTitle = data.title
                     /\ interactionSystem'.panelContent = FormatContent(data.content)
                     /\ interactionSystem'.panelVisible
              /\ document'.lockRequest = "exit"
        /\ (interactionSystem.isPanelOpen /\ observed'.handler = "InteractionSystem.update") =>
              /\ observed'.ops = <<>>
              /\ UNCHANGED <<interactionSystem, material, userData>>
        /\ (interactionSystem.isPanelOpen /\ ~interactionSystem'.isPanelOpen) =>
              /\ ~interactionSystem'.panelVisible
              /\ interactionSystem'.currentInteractable = Null
              /\ \A obj \in Interactables : ~Highlighted(obj)'
      ]_vars

(***************************************************************************)
(* Properties of the player                                                *)
(***************************************************************************)
\* a step that is an update run with the pointer captured, without movement
\* input, on a player that was grounded
GroundedIdleUpdate ==
    /\ observed'.handler = "PlayerController.update"
    /\ observed'.active
    /\ observed'.zeroInput
    /\ observed'.wasGrounded

\* the ground ray from a position finds a surface nearer than height/2 + 0.2
GroundInReach(pc) == CheckGround(pc, FALSE).isGrounded

\* C5 as stated: an update with the pointer captured, no movement input and
\* the player grounded leaves position.y unchanged and the vertical velocity
\* 0, and a grounded player at exactly height/2 keeps its position and stays
\* grounded
C5_GroundedIdleAsStated ==
    [][GroundedIdleUpdate =>
          /\ playerController'.position.y = playerController.position.y
          /\ playerController'.velocity.y = 0
          /\ playerController.position.y = HalfHeight =>
                /\ playerController'.position = playerController.position
                /\ playerController'.isGrounded
      ]_vars

\* C5: an update with the pointer captured, no movement input and the player
\* grounded leaves position.y unchanged and the vertical velocity 0, for
\* every deltaTime; a grounded player at exactly height/2 keeps its position,
\* and stays grounded when the ground ray finds a surface within reach
C5_GroundedIdle ==
    [][GroundedIdleUpdate =>
          /\ playerController'.position.y = playerController.position.y
          /\ playerController'.velocity.y = 0
          /\ playerController.position.y = HalfHeight =>
                /\ playerController'.position = playerController.position
                /\ GroundInReach(playerController) => playerController'.isGrounded
      ]_vars

\* C5 witness: a grounded player at exactly height/2, over the ground, after
\* an update without movement input
C5_Witness ==
    /\ observed.handler = "PlayerController.update"
    /\ observed.active /\ observed.zeroInput /\ observed.wasGrounded
    /\ playerController.position.y = HalfHeight
    /\ playerController.isGrounded
    /\ GroundInReach(playerController)

ActivePlayerUpdate == observed.handler = "PlayerController.update" /\ observed.active

\* C6: after every update that runs with the pointer captured,
\* position.y >= height/2, and when the moved position had y < height/2 the
\* player is at exactly height/2 with vertical velocity 0 and grounded
C6_FloorClamp ==
    ActivePlayerUpdate =>
        /\ playerController.position.y >= HalfHeight
        /\ observed.movedBelowFloor =>
              /\ playerController.position.y = HalfHeight
              /\ playerController.velocity.y = 0
              /\ playerController.isGrounded

\* C6 witness: an update that moved the player below the floor level and
\* snapped it, the ground ray having found nothing
C6_Witness ==
    /\ ActivePlayerUpdate
    /\ observed.movedBelowFloor
    /\ ~observed.wasGrounded
    /\ ~GroundInReach(playerController)
    /\ playerController.position.y = HalfHeight

\* the signed difference target - current brought into [-Pi, Pi)
ShorterArc(difference) == ((difference + Pi) % (2 * Pi)) - Pi

\* C9: one updateRotation changes currentRotation by at most Pi, and the
\* change has the sign of the shorter arc to targetRotation and does not go
\* past the target (when the two arcs are equal, either direction)
C9_ShorterArc ==
    observed.handler = "PlayerController.updateRotation" =>
        LET step == playerController.currentRotation - observed.before
            arc == ShorterArc(playerController.targetRotation - observed.before)
        IN  /\ Abs(step) <= Pi
            /\ Abs(step) <= Abs(arc)
            /\ Abs(arc) < Pi => Sign(step) \in {0, Sign(arc)}
            /\ Abs(arc) >= TurnSpeedInverse => step # 0

\* C9 witness: current 3.13 and target -3.13, the angle having moved by a
\* small step across the boundary
C9_Witness ==
    /\ observed.handler = "PlayerController.updateRotation"
    /\ observed.before = 31300
    /\ playerController.targetRotation = -31300
    /\ playerController.currentRotation > observed.before
    /\ playerController.currentRotation < Pi

(***************************************************************************)
(* Properties of the camera                                                *)
(***************************************************************************)
\* C7: polarAngle lies within [minPolarAngle, maxPolarAngle], and an update
\* that runs with the pointer captured leaves no mouse delta unconsumed
C7_PolarAngleClamped ==
    /\ cameraController.polarAngle >= MinPolarAngle
    /\ cameraController.polarAngle <= MaxPolarAngle
    /\ (observed.handler = "CameraController.update" /\ observed.active) =>
          inputManager.mouseMovement = [x |-> 0, y |-> 0]

\* C7 witness: an update that consumed a mouse delta far beyond the range and
\* left polarAngle at minPolarAngle
C7_Witness ==
    /\ observed.handler = "CameraController.update"
    /\ observed.active
    /\ cameraController.polarAngle = MinPolarAngle

\* C11: an update that runs with the pointer captured takes the stored mouse
\* delta (dx, dy) and changes azimuthAngle by exactly -dx * mouseSensitivity
\* and polarAngle by -dy * mouseSensitivity, clamped afterwards
C11_MouseDeltaApplied ==
    [][(observed'.handler = "CameraController.update" /\ observed'.active) =>
          /\ cameraController'.azimuthAngle =
                 cameraController.azimuthAngle
                 - inputManager.mouseMovement.x * MouseSensitivity
          /\ cameraController'.polarAngle =
                 Clamp(cameraController.polarAngle
                       - inputManager.mouseMovement.y * MouseSensitivity,
                       MinPolarAngle, MaxPolarAngle)]_vars

\* C11 witness: the delta (1000, 0) applied once from the initial angles with
\* sensitivity 0.002: azimuth -2.0, polar angle still pi / 2
C11_Witness ==
    /\ observed.handler = "CameraController.update"
    /\ observed.active
    /\ frames = 1
    /\ cameraController.azimuthAngle = -20000
    /\ cameraController.polarAngle = Pi \div 2

\* the largest difference of two vectors along an axis
Apart(a, b) == Max(Abs(a.x - b.x), Max(Abs(a.y - b.y), Abs(a.z - b.z)))

\* two fixed-point results that agree up to the rounding of the steps
LerpTolerance == 1

\* C10: for a fixed target, one smoothFollow step of 1/30 s and two
\* successive steps of 1/60 s bring currentPosition and currentLookAt to the
\* same value up to the rounding of the steps
C10_FrameRateIndependent ==
    [][(observed'.handler = "CameraController.smoothFollow" /\ observed'.deltaTime = 2) =>
          LET fine == SmoothFollow(SmoothFollow(cameraController, 1), 1)
          IN  /\ Apart(cameraController'.currentPosition, fine.currentPosition) <= LerpTolerance
              /\ Apart(cameraController'.currentLookAt, fine.currentLookAt) <= LerpTolerance
      ]_vars

\* C10 witness: a step of 1/30 s that moved a camera more than a unit away
\* from its target
C10_Witness ==
    /\ observed.handler = "CameraController.smoothFollow"
    /\ observed.deltaTime = 2
    /\ Apart(cameraController.currentPosition, cameraController.targetPosition) > Unit

(***************************************************************************)
(* Properties of the video screens                                         *)
(***************************************************************************)
\* C8: a screen's media volume is never above its targetVolume, and an update
\* unmutes a screen only with its volume above the audible threshold
C8_VolumeRamp ==
    \A i \in ScreenIndexes :
        LET screen == videoScreenSystem.screens[i]
        IN  /\ screen.video.volume <= screen.targetVolume
            /\ (/\ observed.handler = "VideoScreenSystem.update"
                /\ observed.before[i].muted
                /\ ~screen.video.muted) => screen.video.volume > AudibleThreshold

\* C8 witness: an update that unmuted a screen
C8_Witness ==
    \E i \in ScreenIndexes :
        /\ observed.handler = "VideoScreenSystem.update"
        /\ observed.before[i].muted
        /\ ~videoScreenSystem.screens[i].video.muted

\* the planar distance from the player to a screen
ScreenDistance(i) ==
    DistanceXZ(playerController.position, videoScreenSystem.screens[i].position)

\* C12: proximity-gated playback: an update issues a play request for a screen
\* (it does for every screen not playing) only with the player within the
\* screen's trigger radius, and isPlaying turns true only within it
C12_ProximityGated ==
    \A i \in ScreenIndexes :
        LET screen == videoScreenSystem.screens[i]
        IN  /\ (/\ observed.handler = "VideoScreenSystem.update"
                /\ ~screen.isPlaying
                /\ screen.video.playPending) =>
                   ScreenDistance(i) <= screen.triggerRadius
            /\ (/\ observed.handler = "play.then"
                /\ observed.screen = i) =>
                   ScreenDistance(i) < screen.triggerRadius

(***************************************************************************)
(* Properties of the collision fallback                                    *)
(***************************************************************************)
\* the position an active update leaves the player at, for a position
\* reached by move: the floor clamp raises it to height / 2
Landed(position) == [position EXCEPT !.y = Max(@, HalfHeight)]

\* C13: in an active update whose combined displacement is blocked, the
\* player ends displaced horizontally by exactly moveDirection * dt when the
\* position reached by the horizontal displacement alone is free, and
\* otherwise by the vertical displacement when that one alone is free
C13_CollisionFallback ==
    [][\A deltaTime \in DeltaTimes, cameraForward \in CameraForwards, selfHit \in BOOLEAN :
          (/\ observed'.handler = "PlayerController.update"
           /\ observed'.active
           /\ playerController' =
                  PlayerControllerUpdate(playerController, inputManager, deltaTime,
                                         cameraForward, selfHit)) =>
             LET pc == BeforeMove(playerController, inputManager, deltaTime,
                                  cameraForward, selfHit)
                 h == HorizontalMovement(pc, deltaTime)
                 v == VerticalMovement(pc, deltaTime)
                 blocked == ~CanMoveTo(Add3(pc.position, Add3(h, v)))
                 horizontalFree == CanMoveTo(Add3(pc.position, h))
                 verticalFree == CanMoveTo(Add3(pc.position, v))
             IN  /\ (blocked /\ horizontalFree) =>
                        playerController'.position = Landed(Add3(pc.position, h))
                 /\ (blocked /\ ~horizontalFree /\ verticalFree) =>
                        playerController'.position = Landed(Add3(pc.position, v))]_vars

(***************************************************************************)
(* Properties of the updates that run without pointer capture              *)
(***************************************************************************)
\* C14: while no element holds the pointer lock, PlayerController.update
\* leaves the whole player state unchanged, whatever keys are pressed and
\* whatever deltaTime is supplied
C14_IdleWithoutCapture ==
    [][(observed'.handler = "PlayerController.update" /\ ~HoldsLock(document)) =>
          playerController' = playerController]_vars

\* C15: InteractionSystem.update is a no-op whenever a panel is open or no
\* element holds the pointer lock: the current target, the highlight state
\* of every interactable (the emissive values of its materials), the prompt
\* visibility and the panel state are unchanged
C15_UpdateNoOp ==
    [][(/\ observed'.handler = "InteractionSystem.update"
        /\ (interactionSystem.isPanelOpen \/ ~HoldsLock(document))) =>
          /\ interactionSystem' = interactionSystem
          /\ material' = material]_vars

(***************************************************************************)
(* Properties of the interact key                                          *)
(***************************************************************************)
\* C16: a panel opens on a tick only from Targeting and only on an interact
\* key edge: the interactable it opens for is targeted on that tick, it was
\* the target already when the key went down (key events arrive between
\* ticks, so it was the target before the tick: a key that went down in Idle
\* and is still held opens nothing when a target is acquired), and the key
\* press is used up (one press opens at most one panel)
C16_OpensOnEdgeWhileTargeting ==
    (observed.handler = "InteractionSystem.update" /\ observed.opened) =>
        /\ ResolvedTarget(observed.hit) # Null
        /\ observed.before = ResolvedTarget(observed.hit)
        /\ ~IsInteractPressed(inputManager)

(***************************************************************************)
(* Properties of the play requests                                         *)
(***************************************************************************)
\* a play request is pending for every screen that was not playing
RetriedAll ==
    \A i \in ScreenIndexes :
        ~videoScreenSystem.screens[i].isPlaying =>
            videoScreenSystem'.screens[i].video.playPending

\* C17: a rejected play request leaves the screen with isPlaying = false and
\* eligible for retry: the next update and the first user gesture issue a
\* play request for every screen that is not playing, and a request that
\* resolves sets isPlaying = true
C17_RejectionRecoverable ==
    [][/\ observed'.handler = "play.catch" =>
            ~videoScreenSystem'.screens[observed'.screen].isPlaying
       /\ observed'.handler = "VideoScreenSystem.update" => RetriedAll
       /\ (observed'.handler \in {"click", "keydown"}
            /\ ~videoScreenSystem.userInteracted) => RetriedAll
       /\ observed'.handler = "play.then" =>
            videoScreenSystem'.screens[observed'.screen].isPlaying]_vars

\* C17 witness: a play request was rejected after the user gesture; the
\* screen is not playing and no request is pending
C17_Witness ==
    /\ observed.handler = "play.catch"
    /\ videoScreenSystem.userInteracted
    /\ ~videoScreenSystem.screens[observed.screen].isPlaying
    /\ ~videoScreenSystem.screens[observed.screen].video.playPending

(***************************************************************************)
(* Properties of the mouse delta                                           *)
(***************************************************************************)
\* C19: getMouseDelta returns the movement accumulated since the previous
\* poll: every mousemove received with the pointer captured adds its
\* movementX / movementY to the stored movement, and the poll of an update
\* resets it to (0, 0)
C19_MouseDeltaAccumulates ==
    [][/\ (observed'.handler = "mousemove" /\ inputManager.isPointerLocked) =>
            inputManager'.mouseMovement =
                [x |-> inputManager.mouseMovement.x + observed'.movement.x,
                 y |-> inputManager.mouseMovement.y + observed'.movement.y]
       /\ (observed'.handler = "CameraController.update" /\ observed'.active) =>
            inputManager'.mouseMovement = [x |-> 0, y |-> 0]]_vars

(***************************************************************************)
(* Properties of the game loop                                             *)
(***************************************************************************)
\* C18: in a page that lacks a required element Game.init refuses to start:
\* once init() has run the failure is reported through showError, isRunning
\* is false and no frame tick has run
C18_RefusesToStart ==
    (game.initialized /\ document.elements # UIElements) =>
        /\ game.errorShown
        /\ ~game.isRunning
        /\ frames = 0

\* a frame tick: a SceneManager.update has run
FrameTick == observed.handler \in {"Game.init", "Game.animate"} /\ observed.ticked

\* C20: every frame tick runs PlayerController.update, CameraController.update,
\* InteractionSystem.update, VideoScreenSystem.update and then render: the
\* player is updated with the forward vector the camera had after the
\* previous tick, the camera follows the position the player has after this
\* tick, and the video system receives that same position
C20_TickOrder ==
    [][FrameTick' =>
          /\ observed'.rendered
          /\ \E deltaTime \in FrameTimes :
                /\ playerController' =
                       PlayerControllerUpdate(playerController, inputManager, deltaTime,
                                              GetForwardDirection(cameraController), FALSE)
                /\ cameraController' =
                       CameraControllerUpdate(cameraController, inputManager,
                                              playerController'.position,
                                              deltaTime).cameraController
          /\ videoScreenSystem'.playerPosition = playerController'.position]_vars

\* C20 witness: a rendered tick with the pointer captured in which the player
\* walked and the camera turned
C20_Witness ==
    /\ FrameTick
    /\ observed.active
    /\ observed.rendered
    /\ playerController.moveDirection # Vec3(0, 0, 0)
    /\ playerController.position # ConfigStartPosition
    /\ cameraController.azimuthAngle # 0
    /\ videoScreenSystem.playerPosition = playerController.position

(***************************************************************************)
(* Properties of the panel content, the session state and the collisions   *)
(***************************************************************************)
\* the marker that starts the list lines of Config.interactables
ConfiguredBullet == <<"BULLET">>

\* one line formatted as described for a given marker: a list item without
\* the marker, a paragraph, or nothing
DescribedLine(rawLine, marker) ==
    LET line == Trim(rawLine)
    IN  IF StartsWith(line, marker)
        THEN <<[tag |-> "li", text |-> Trim(SubSeq(line, Len(marker) + 1, Len(line)))]>>
        ELSE IF Len(line) > 0 THEN <<[tag |-> "p", text |-> line]>>
        ELSE <<>>

DescribedContent(text, marker) ==
    LET lines == SplitLines(text, <<>>)
    IN  Concat([i \in DOMAIN lines |-> DescribedLine(lines[i], marker)])

\* C21: the content of an open panel is the configured content of its
\* interactable formatted line by line in order: each line that begins with
\* the configured bullet marker is a list item holding the text without the
\* marker, each other non-blank line a paragraph, blank lines give nothing
C21_FormatsConfiguredContent ==
    interactionSystem.isPanelOpen =>
        \E obj \in Interactables :
            /\ interactionSystem.panelTitle = InteractionData(obj).title
            /\ interactionSystem.panelContent =
                   DescribedContent(InteractionData(obj).content, ConfiguredBullet)

\* C22: between operations a panel is never open while an interactable is
\* still the current target or still highlighted
C22_SessionStatesExclusive ==
    interactionSystem.isPanelOpen =>
        /\ interactionSystem.currentInteractable = Null
        /\ \A obj \in Interactables : ~Highlighted(obj)

\* C23: an update that runs with the pointer captured on a player whose box
\* intersects no collidable box leaves a player whose box intersects none,
\* also when the floor clamp has changed position.y
C23_StaysClearOfCollidables ==
    [][(ActivePlayerUpdate' /\ CanMoveTo(playerController.position))
           => CanMoveTo(playerController'.position)]_vars

\* C24: whenever an update ends with a current interactable, no panel open
\* and the pointer captured, that interactable has the highlight applied and
\* the interaction prompt is visible, also after pointer capture was lost and
\* acquired again with the same interactable under the view centre
C24_TargetingShowsHighlight ==
    (/\ observed.handler = "InteractionSystem.update"
     /\ interactionSystem.currentInteractable # Null
     /\ ~interactionSystem.isPanelOpen
     /\ inputManager.isPointerLocked)
        => /\ Highlighted(interactionSystem.currentInteractable)
           /\ interactionSystem.promptVisible

(***************************************************************************)
(* Properties of pointer capture and of the video screens                  *)
(***************************************************************************)
\* C25: Utils.isPointerLocked() is true exactly when some element holds the
\* pointer lock, whichever of the three pointerLockElement properties the
\* browser implements, and so is InputManager.isPointerLocked after each
\* pointerlockchange event
C25_PointerLockedIffHeld ==
    /\ UtilsIsPointerLocked(document) <=> HoldsLock(document)
    /\ observed.handler = "pointerlockchange" =>
           (inputManager.isPointerLocked <=> HoldsLock(document))

\* C26: whatever the interleaving of the completions of play requests with
\* updates, user gestures, pauseVideo and stopVideo, screen.isPlaying is true
\* only while the media is playing
C26_PlayingFlagExact ==
    \A i \in ScreenIndexes :
        videoScreenSystem.screens[i].isPlaying => videoScreenSystem.screens[i].video.playing

\* no call of setVolume, setMuted, pauseVideo or stopVideo has just been made
Quiet == observed.handler \notin {"setVolume", "setMuted", "pauseVideo", "stopVideo"}

\* the user gesture has been observed, the play request of screen i has
\* resolved and its target volume is within (0, 1]
RampReady(i) ==
    /\ videoScreenSystem.userInteracted
    /\ videoScreenSystem.screens[i].isPlaying
    /\ videoScreenSystem.screens[i].targetVolume \in 1..MaxVolume

RampDone(i) ==
    /\ videoScreenSystem.screens[i].video.volume = videoScreenSystem.screens[i].targetVolume
    /\ ~videoScreenSystem.screens[i].video.muted

\* C27: once the user gesture has been observed and a play request of a
\* screen has resolved, and no setVolume, setMuted or pause call follows, the
\* repeated updates eventually bring the screen to volume = targetVolume and
\* muted = false, whatever its targetVolume within (0, 1]
C27_RampCompletes ==
    \A i \in ScreenIndexes : []((RampReady(i) /\ []Quiet) => <>RampDone(i))

HalfOpenWrap(difference) == Pi - ((Pi - difference) % (2 * Pi))

\* the same within [-Pi, Pi], a negative odd multiple of Pi giving -Pi
ClosedWrap(difference) ==
    IF difference < 0 /\ HalfOpenWrap(difference) = Pi THEN -Pi
    ELSE HalfOpenWrap(difference)

RECURSIVE PathToRoot(_, _)
PathToRoot(parentOf, object) ==
    IF object = Null THEN <<>>
    ELSE <<object>> \o PathToRoot(parentOf, parentOf[object])

\* C30: findInteractableParent returns the nearest object flagged
\* interactable on the path from the hit object (itself included) to the
\* root, and null when no object on that path is flagged
C30_NearestInteractable ==
    observed.handler = "findInteractableParent" =>
        LET path == PathToRoot(observed.parentOf, observed.object)
            flagged == {k \in DOMAIN path : path[k] \in observed.interactables}
        IN  observed.result =
                IF flagged = {} THEN Null
                ELSE path[CHOOSE k \in flagged : \A other \in flagged : k <= other]

\* C30 witness: a hit on an unflagged object whose parent and grandparent
\* are both flagged: the parent is returned
C30_Witness ==
    /\ observed.handler = "findInteractableParent"
    /\ observed.object \notin observed.interactables
    /\ observed.parentOf[observed.object] \in observed.interactables
    /\ StepUp(observed.parentOf, observed.parentOf[observed.object]) \in observed.interactables
    /\ observed.result = observed.parentOf[observed.object]

\* C31: an active update integrates gravity from the grounded flag the
\* previous update left: not grounded, velocity.y gains gravity * deltaTime;
\* grounded with velocity.y < 0, it becomes 0; grounded otherwise, it is
\* kept. The ground check of the same update comes after, so the flag it
\* computes does not enter; only the clamp that ends move resets the result.
C31_GravityFromPreviousFlag ==
    [][(observed'.handler = "PlayerController.update" /\ observed'.active)
        => playerController'.velocity.y =
             IF observed'.movedBelowFloor THEN 0
             ELSE IF ~playerController.isGrounded
             THEN playerController.velocity.y
                    + Quot(Gravity * observed'.deltaTime, TicksPerSecond)
             ELSE IF playerController.velocity.y < 0 THEN 0
             ELSE playerController.velocity.y]_vars

\* an update that began not grounded has integrated gravity although its own
\* ground check finds the player on the ground
C31_Witness ==
    /\ observed.handler = "PlayerController.update"
    /\ observed.active
    /\ ~observed.wasGrounded
    /\ ~observed.movedBelowFloor
    /\ playerController.isGrounded
    /\ playerController.velocity.y < 0

\* the heights of the surfaces other than the player's own mesh that lie on
\* the vertical line through a point
SurfaceHeightsAt(point) ==
    {b.position.y + b.size.y \div 2 :
        b \in {ConfigBuildings[i] : i \in {j \in DOMAIN ConfigBuildings :
                                             OverBuilding(point, ConfigBuildings[j])}}}
    \cup (IF OverPlaza(point) THEN {PlazaPosition.y} ELSE {})
    \cup (IF OverGrid(point) THEN {GridHeight} ELSE {})
    \cup (IF OverGround(point) THEN {0} ELSE {})

\* a surface other than the player lies below the ray origin, nearer to it
\* than height / 2 + epsilon
GroundWithinReach(position) ==
    \E y \in SurfaceHeightsAt(position) :
        /\ y <= position.y + GroundRayOffset
        /\ position.y + GroundRayOffset - y < HalfHeight + GroundEpsilon

\* C32: the ground check of an active update sets isGrounded exactly when the
\* downward ray from the position the update began at has a hit other than
\* the player's own mesh whose nearest one is closer than height / 2 +
\* epsilon, whether or not the ray also meets the player's mesh (the clamp
\* that ends move may set the flag afterwards).
C32_GroundedIffGroundHit ==
    [][(observed'.handler = "PlayerController.update" /\ observed'.active
          /\ ~observed'.movedBelowFloor)
        => (playerController'.isGrounded <=> GroundWithinReach(playerController.position))]_vars

\* the ray met the player's own mesh, nearer than height / 2 + epsilon, and
\* the player is not grounded
C32_Witness ==
    /\ observed.handler = "PlayerController.update"
    /\ observed.active
    /\ observed.selfHit
    /\ ~observed.movedBelowFloor
    /\ ~playerController.isGrounded

\* a user gesture has just been handled
GestureHandled == observed.handler \in {"click", "keydown"}

\* the step makes a play attempt for screen i: an update tick that reaches
\* the screen while it is not marked playing, or the first gesture
PlayAttempted(i) ==
    /\ ~videoScreenSystem.screens[i].isPlaying
    /\ \/ observed'.handler = "VideoScreenSystem.update"
       \/ GestureHandled' /\ ~videoScreenSystem.userInteracted

\* C33: before the first click or keydown every screen is muted with volume
\* 0; every play attempt leaves the media muted with volume 0; userInteracted
\* is set by a gesture only, is never reset, and a gesture after the first
\* leaves the video screen system as it is.
C33_MutedUntilGesture ==
    /\ [](~videoScreenSystem.userInteracted =>
            \A i \in ScreenIndexes :
                /\ videoScreenSystem.screens[i].video.muted
                /\ videoScreenSystem.screens[i].video.volume = 0)
    /\ [][/\ \A i \in ScreenIndexes :
                PlayAttempted(i) =>
                    /\ videoScreenSystem'.screens[i].video.muted
                    /\ videoScreenSystem'.screens[i].video.volume = 0
          /\ videoScreenSystem.userInteracted => videoScreenSystem'.userInteracted
          /\ (~videoScreenSystem.userInteracted /\ videoScreenSystem'.userInteracted)
                => GestureHandled'
          /\ (videoScreenSystem.userInteracted /\ GestureHandled')
                => videoScreenSystem' = videoScreenSystem]_vars

\* a gesture after the first has been handled while a screen, paused at a
\* raised volume, is not playing and has no play request pending
C33_Witness ==
    /\ GestureHandled
    /\ videoScreenSystem.userInteracted
    /\ \E i \in ScreenIndexes :
          /\ ~videoScreenSystem.screens[i].isPlaying
          /\ ~videoScreenSystem.screens[i].video.playPending
          /\ videoScreenSystem.screens[i].video.volume > 0

\* isPlaying of screen i disagrees with the state of its media
Stale(i) ==
    videoScreenSystem.screens[i].isPlaying # videoScreenSystem.screens[i].video.playing

TickHandled == observed.handler = "VideoScreenSystem.update"

\* C34: a step that issues a play request for a screen leaves the screen
\* marked playing, and isPlaying does not disagree with the media at the end
\* of two update ticks in a row.
C34_OptimisticIntent ==
    [][\A i \in ScreenIndexes :
          /\ PlayAttempted(i) => videoScreenSystem'.screens[i].isPlaying
          /\ (TickHandled /\ Stale(i) /\ TickHandled') => ~Stale(i)']_vars

\* the movement input of the update just made is degenerate: no direction
\* from the keys (none pressed, or opposing keys cancelling on both axes), or
\* a camera forward vector without a horizontal component
DegenerateInput ==
    \/ observed.zeroInput
    \/ observed.cameraForward.x = 0 /\ observed.cameraForward.z = 0

\* C35: an active update with degenerate movement input ends with a zero
\* moveDirection, with position.x, position.z and targetRotation as they
\* were, and with numbers in all three components of the position.
C35_DegenerateInputIsNoMovement ==
    [][(observed'.handler = "PlayerController.update" /\ observed'.active
          /\ DegenerateInput')
        => /\ playerController'.moveDirection = Vec3(0, 0, 0)
           /\ playerController'.position.x = playerController.position.x
           /\ playerController'.position.z = playerController.position.z
           /\ playerController'.targetRotation = playerController.targetRotation
           /\ playerController'.position \in [x : Int, y : Int, z : Int]]_vars

\* an active update made with a movement key down and the camera looking
\* straight down, by a player whose target rotation is not 0
C35_Witness ==
    /\ observed.handler = "PlayerController.update"
    /\ observed.active
    /\ ~observed.zeroInput
    /\ observed.cameraForward.x = 0 /\ observed.cameraForward.z = 0
    /\ playerController.targetRotation # 0

\* an active update made with opposing keys down on both axes
C35_OpposingKeys ==
    /\ observed.handler = "PlayerController.update"
    /\ observed.active
    /\ {"KeyW", "KeyS", "KeyA", "KeyD"} \subseteq inputManager.keys

\* C36: while no element holds the pointer lock the input manager holds no
\* mouse movement (a mousemove records none, and an unlock discards what was
\* recorded and not polled), so none reaches the angles when the lock is
\* acquired again; and a CameraController.update made without the lock keeps
\* azimuthAngle and polarAngle while it follows the target.
C36_UncapturedMouseIgnored ==
    /\ [](~HoldsLock(document) => inputManager.mouseMovement = [x |-> 0, y |-> 0])
    /\ [][(observed'.handler = "CameraController.update" /\ ~HoldsLock(document))
            => /\ cameraController'.azimuthAngle = cameraController.azimuthAngle
               /\ cameraController'.polarAngle = cameraController.polarAngle
               /\ cameraController'.targetLookAt
                    = Add3(playerController.position, LookAtOffset)]_vars

\* the step just taken ran the body of a frame
FrameRan ==
    /\ observed.handler \in {"Game.init resumed", "Game.animate"}
    /\ observed.ticked \/ observed.rendered

\* C37: once dispose() has been called no frame runs SceneManager.update or
\* render, whether its callback was scheduled before the call or not, and a
\* frame has run only in a game whose init() has initialized the scene.
C37_NoFrameAfterDispose ==
    /\ game.disposed => ~FrameRan
    /\ frames > 0 =>
          game.initialized /\ game.awaiting = "none" /\ HasElement(document, "close-panel")

\* the same of a disposed game that the continuation of init() has not
\* started again: dispose() called before init() or after it has completed
C37_NoFrameAfterLateDispose ==
    (game.disposed /\ ~game.isRunning) => ~FrameRan

\* the callback of a frame requested before dispose() has run and done nothing
C37_ScheduledFrameSkipped ==
    /\ game.disposed
    /\ observed.handler = "Game.animate"
    /\ ~observed.ticked
    /\ ~observed.rendered
    /\ frames > 0
====
